---------------------------- MODULE Spec2Model ----------------------------
(***************************************************************************)
(* Safety-constrained exercise recommendation filter of the Health Butler  *)
(* multi-agent assistant: SimpleRagTool.get_safe_recommendations and       *)
(* search_exercises (src/src/data_rag/simple_rag_tool.py) and the          *)
(* FitnessAgent validator, extractor, execute and execute_async            *)
(* (src/src/agents/fitness/fitness_agent.py).                              *)
(*                                                                         *)
(* A Python str is a TLA+ string; Chars gives its characters, and the str  *)
(* primitives (lower, strip, join, in) work on sequences of characters.    *)
(***************************************************************************)
EXTENDS Integers, Sequences, FiniteSets, TLC

VARIABLES
    exercises,   \* SimpleRagTool.exercises, the catalog
    rag_pc,      \* "idle" or "returned": a call of get_safe_recommendations
    rag_args,    \* the arguments of that call
    rag_ret,     \* the dict it returned
    val_pc,      \* "idle", "validated" or "revalidated": the validator
    val_args,    \* recommendations and warnings of the first pass
    val_ret,     \* (validated, was_adjusted) of the first pass
    val_ret2,    \* (validated, was_adjusted) of a pass over val_ret.validated
    agent_pc,    \* "idle" or "returned": a request to the FitnessAgent
    agent_call,  \* entry point, task, conditions and the text the LLM produced
    agent_obs,   \* what the handler computed on the way
    agent_resp,  \* what the handler returned
    ext_pc,      \* "idle" or "returned": a call of the warning extractor
    ext_task,    \* the task it was called with, as a list of fragments
    ext_ret,     \* the list it returned
    memo_pc,     \* "idle", "built", "delegated", "extracted" or "injected"
    memo_call,   \* base task, nutrition result and user input of that request
    memo_ret,    \* the Health Memo and the task the coordinator built
    cache_pc,       \* "idle" or "returned": a call of hydrate_cache
    cache_call,     \* its argument, what the provider did, the file and the list before
    cache_ret,      \* the bool it returned
    cache_in_memory,  \* ExerciseAPIClient._cache_in_memory
    cache_file,     \* the cache file: missing, a list, a dict with data, or corrupt
    cache_snapshot, \* the data of the last hydration that succeeded in full
    cache_fetches,  \* the number of fetches from the provider so far
    thr_pc,      \* per thread: the line of get_safe_recommendations it is at
    thr_call,    \* per thread: the arguments of its call
    thr_local,   \* per thread: safe_list, original_exercises, results, recs
    thr_ret,     \* per thread: what its call returned, or that it raised
    conc_env,    \* the catalog before the two calls, and FUZZY_AVAILABLE
    frame_pc,    \* "idle" or "returned": one call of the filter, any arguments
    frame_call,  \* its arguments and the catalog before it
    frame_ret,   \* what it returned, or that it raised
    search_pc,   \* "idle" or "returned": a call of search_exercises
    search_call, \* its candidates, query, limit, the scores, FUZZY_AVAILABLE
    search_ret,  \* the list it returned
    swarm_pc,    \* "idle", "running" or "returned": where HealthSwarm.execute_async is
    swarm_call,  \* the request, the delegations and how many of them have run
    swarm_ret,   \* the agents run so far, each with its task and its result
    demo_mode,   \* profile_utils.demo_mode
    demo_user_id,\* profile_utils.demo_user_id, "None" when unset
    demo_user_profile,\* profile_utils._demo_user_profile: the user ids that have an entry
    demo_last,   \* the last message handled: its kind, its author and who held the demo
    profile_db   \* the user ids that have a saved profile with a name

rag_vars == <<rag_pc, rag_args, rag_ret>>

val_vars == <<val_pc, val_args, val_ret, val_ret2>>

agent_vars == <<agent_pc, agent_call, agent_obs, agent_resp>>

ext_vars == <<ext_pc, ext_task, ext_ret>>

memo_vars == <<memo_pc, memo_call, memo_ret>>

cache_vars == <<cache_pc, cache_call, cache_ret, cache_in_memory, cache_file,
                cache_snapshot, cache_fetches>>

conc_vars == <<thr_pc, thr_call, thr_local, thr_ret, conc_env>>

frame_vars == <<frame_pc, frame_call, frame_ret>>

search_vars == <<search_pc, search_call, search_ret>>

swarm_vars == <<swarm_pc, swarm_call, swarm_ret>>

demo_vars == <<demo_mode, demo_user_id, demo_user_profile, demo_last, profile_db>>

vars == <<exercises, rag_vars, val_vars, agent_vars, ext_vars, memo_vars, cache_vars,
          conc_vars, frame_vars, search_vars, swarm_vars, demo_vars>>

-----------------------------------------------------------------------------
(* Bounds of the model *)

MaxCatalog == 2

MaxRisks == 2

MaxTopK == 2

MaxRecs == 3

MaxLlmRecs == 1

MaxFragments == 4

MaxPages == 2

MaxFetches == 2

MaxCandidates == 3

\* the longest visual_warnings list of a nutrition result given to the extraction
MaxWarnings == 2

-----------------------------------------------------------------------------
(* Python str primitives *)

Range(s) == {s[i] : i \in 1..Len(s)}

Min(a, b) == IF a < b THEN a ELSE b

\* the characters of every str value of the model
Chars ==
    ("" :> << >>)
    @@ ("a" :> <<"a">>)
    @@ ("s" :> <<"s">>)
    @@ ("t" :> <<"t">>)
    @@ ("h" :> <<"h">>)
    @@ ("m" :> <<"m">>)
    @@ (" " :> <<" ">>)
    @@ ("sprint" :> <<"s","p","r","i","n","t">>)
    @@ ("hiit" :> <<"h","i","i","t">>)
    @@ ("high intensity" :> <<"h","i","g","h"," ","i","n","t","e","n","s","i","t","y">>)
    @@ ("fast run" :> <<"f","a","s","t"," ","r","u","n">>)
    @@ ("running fast" :> <<"r","u","n","n","i","n","g"," ","f","a","s","t">>)
    @@ ("burpee" :> <<"b","u","r","p","e","e">>)
    @@ ("jump squat" :> <<"j","u","m","p"," ","s","q","u","a","t">>)
    @@ ("box jump" :> <<"b","o","x"," ","j","u","m","p">>)
    @@ ("plyometric" :> <<"p","l","y","o","m","e","t","r","i","c">>)
    @@ ("max effort" :> <<"m","a","x"," ","e","f","f","o","r","t">>)
    @@ ("all-out" :> <<"a","l","l","-","o","u","t">>)
    @@ ("vigorous" :> <<"v","i","g","o","r","o","u","s">>)
    @@ ("intense cardio" :> <<"i","n","t","e","n","s","e"," ","c","a","r","d","i","o">>)
    @@ ("run" :> <<"r","u","n">>)
    @@ ("jog" :> <<"j","o","g">>)
    @@ ("running" :> <<"r","u","n","n","i","n","g">>)
    @@ ("jump" :> <<"j","u","m","p">>)
    @@ ("jumping" :> <<"j","u","m","p","i","n","g">>)
    @@ ("skip" :> <<"s","k","i","p">>)
    @@ ("skipping" :> <<"s","k","i","p","p","i","n","g">>)
    @@ ("fried" :> <<"f","r","i","e","d">>)
    @@ ("high_oil" :> <<"h","i","g","h","_","o","i","l">>)
    @@ ("high_sugar" :> <<"h","i","g","h","_","s","u","g","a","r">>)
    @@ ("processed" :> <<"p","r","o","c","e","s","s","e","d">>)
    @@ ("High_Sugar" :> <<"H","i","g","h","_","S","u","g","a","r">>)
    @@ ("spicy" :> <<"s","p","i","c","y">>)
    @@ ("FRIED" :> <<"F","R","I","E","D">>)
    @@ ("Fast Running" :> <<"F","a","s","t"," ","R","u","n","n","i","n","g">>)
    @@ ("Brisk Walking" :> <<"B","r","i","s","k"," ","W","a","l","k","i","n","g">>)
    @@ ("Running 6mph" :> <<"R","u","n","n","i","n","g"," ","6","m","p","h">>)
    @@ ("Circuit" :> <<"C","i","r","c","u","i","t">>)
    @@ ("cardio" :> <<"c","a","r","d","i","o">>)
    @@ ("daily" :> <<"d","a","i","l","y">>)
    @@ ("strength" :> <<"s","t","r","e","n","g","t","h">>)
    @@ ("outdoor" :> <<"o","u","t","d","o","o","r">>)
    @@ ("High" :> <<"H","i","g","h">>)
    @@ ("Intensity" :> <<"I","n","t","e","n","s","i","t","y">>)
    @@ ("Knee_Injury" :> <<"K","n","e","e","_","I","n","j","u","r","y">>)
    @@ ("knee_injury" :> <<"k","n","e","e","_","i","n","j","u","r","y">>)
    @@ ("KNEE_INJURY" :> <<"K","N","E","E","_","I","N","J","U","R","Y">>)
    @@ ("asthma" :> <<"a","s","t","h","m","a">>)
    @@ (" \n" :> <<" ","\n">>)
    @@ (" Run " :> <<" ","R","u","n"," ">>)
    @@ ("fast run" :> <<"f","a","s","t"," ","r","u","n">>)
    @@ ("intense" :> <<"i","n","t","e","n","s","e">>)
    @@ ("HIIT Workout" :> <<"H","I","I","T"," ","W","o","r","k","o","u","t">>)
    @@ ("Walking" :> <<"W","a","l","k","i","n","g">>)
    @@ ("Plyometric Drills" :> <<"P","l","y","o","m","e","t","r","i","c"," ","D","r","i","l","l","s">>)
    @@ ("Jumping Jacks" :> <<"J","u","m","p","i","n","g"," ","J","a","c","k","s">>)
    @@ ("Slow Running" :> <<"S","l","o","w"," ","R","u","n","n","i","n","g">>)
    @@ ("warning" :> <<"w","a","r","n","i","n","g">>)
    @@ ("-" :> <<"-">>)
    @@ ("_" :> <<"_">>)
    @@ ("deep-fried" :> <<"d","e","e","p","-","f","r","i","e","d">>)
    @@ ("fried food" :> <<"f","r","i","e","d"," ","f","o","o","d">>)
    @@ ("high" :> <<"h","i","g","h">>)
    @@ ("oil" :> <<"o","i","l">>)
    @@ ("fat" :> <<"f","a","t">>)
    @@ ("greasy" :> <<"g","r","e","a","s","y">>)
    @@ ("sugar" :> <<"s","u","g","a","r">>)
    @@ ("sugary" :> <<"s","u","g","a","r","y">>)
    @@ ("sweet" :> <<"s","w","e","e","t">>)
    @@ ("glazed" :> <<"g","l","a","z","e","d">>)
    @@ ("processed food" :> <<"p","r","o","c","e","s","s","e","d"," ","f","o","o","d">>)
    @@ ("Suggest a workout for today" :> <<"S","u","g","g","e","s","t"," ","a"," ","w","o","r","k","o","u","t"," ","f","o","r"," ","t","o","d","a","y">>)
    @@ ("I ate Fried chicken, can I go for a fast run?" :> <<"I"," ","a","t","e"," ","F","r","i","e","d"," ","c","h","i","c","k","e","n",","," ","c","a","n"," ","I"," ","g","o"," ","f","o","r"," ","a"," ","f","a","s","t"," ","r","u","n","?">>)
    @@ ("Health warnings: deep-fried, high-sugar (Warnings: fried, high_sugar)" :> <<"H","e","a","l","t","h"," ","w","a","r","n","i","n","g","s",":"," ","d","e","e","p","-","f","r","i","e","d",","," ","h","i","g","h","-","s","u","g","a","r"," ","(","W","a","r","n","i","n","g","s",":"," ","f","r","i","e","d",","," ","h","i","g","h","_","s","u","g","a","r",")">>)
    @@ ("visual_warnings = [high_oily] plan my evening" :> <<"v","i","s","u","a","l","_","w","a","r","n","i","n","g","s"," ","="," ","[","h","i","g","h","_","o","i","l","y","]"," ","p","l","a","n"," ","m","y"," ","e","v","e","n","i","n","g">>)
    @@ ("Plan a walk. " :> <<"P","l","a","n"," ","a"," ","w","a","l","k","."," ">>)
    @@ ("I ate Fried chicken. " :> <<"I"," ","a","t","e"," ","F","r","i","e","d"," ","c","h","i","c","k","e","n","."," ">>)
    @@ ("HIGH-SUGAR sweets. " :> <<"H","I","G","H","-","S","U","G","A","R"," ","s","w","e","e","t","s","."," ">>)
    @@ ("Warnings: [" :> <<"W","a","r","n","i","n","g","s",":"," ","[">>)
    @@ ("fried, fried" :> <<"f","r","i","e","d",","," ","f","r","i","e","d">>)
    @@ ("high_oily, xprocessed" :> <<"h","i","g","h","_","o","i","l","y",","," ","x","p","r","o","c","e","s","s","e","d">>)
    @@ ("] " :> <<"]"," ">>)
    @@ ("meal" :> <<"m","e","a","l">>)
    @@ ("Glazed Donut" :> <<"G","l","a","z","e","d"," ","D","o","n","u","t">>)
    @@ ("Suggest appropriate exercises." :> <<"S","u","g","g","e","s","t"," ","a","p","p","r","o","p","r","i","a","t","e"," ","e","x","e","r","c","i","s","e","s",".">>)
    @@ ("I just ate a burger" :> <<"I"," ","j","u","s","t"," ","a","t","e"," ","a"," ","b","u","r","g","e","r">>)
    @@ ("What is in this dish?" :> <<"W","h","a","t"," ","i","s"," ","i","n"," ","t","h","i","s"," ","d","i","s","h","?">>)
    @@ ("Based on the previous nutrition analysis, suggest appropriate exercises." :> <<"B","a","s","e","d"," ","o","n"," ","t","h","e"," ","p","r","e","v","i","o","u","s"," ","n","u","t","r","i","t","i","o","n"," ","a","n","a","l","y","s","i","s",","," ","s","u","g","g","e","s","t"," ","a","p","p","r","o","p","r","i","a","t","e"," ","e","x","e","r","c","i","s","e","s",".">>)
    @@ ("Suggest exercises to balance this meal intake" :> <<"S","u","g","g","e","s","t"," ","e","x","e","r","c","i","s","e","s"," ","t","o"," ","b","a","l","a","n","c","e"," ","t","h","i","s"," ","m","e","a","l"," ","i","n","t","a","k","e">>)

UpperAlpha == <<"A","B","C","D","E","F","G","H","I","J","K","L","M","N","O","P","Q","R","S","T","U","V","W","X","Y","Z">>

LowerAlpha == <<"a","b","c","d","e","f","g","h","i","j","k","l","m","n","o","p","q","r","s","t","u","v","w","x","y","z">>

\* the lowercase form of each uppercase letter
LowerOf == [c \in Range(UpperAlpha) |-> LowerAlpha[CHOOSE i \in 1..26 : UpperAlpha[i] = c]]

LowerChar(c) == IF c \in DOMAIN LowerOf THEN LowerOf[c] ELSE c

\* str.lower(), on the characters
Lower(s) == [i \in 1..Len(s) |-> LowerChar(s[i])]

\* `kw in text` on two str values
Contains(kw, text) ==
    \E i \in 0..(Len(text) - Len(kw)) : SubSeq(text, i + 1, i + Len(kw)) = kw

WhitespaceChars == {" ", "\t", "\n", "\r"}

\* str.strip()
Strip(s) ==
    LET nonws == {i \in 1..Len(s) : s[i] \notin WhitespaceChars}
    IN  IF nonws = {} THEN << >>
        ELSE LET lo == CHOOSE i \in nonws : \A j \in nonws : i <= j
                 hi == CHOOSE i \in nonws : \A j \in nonws : j <= i
             IN  SubSeq(s, lo, hi)

RECURSIVE JoinWith(_, _)
\* sep.join(parts)
JoinWith(sep, parts) ==
    IF Len(parts) = 0 THEN << >>
    ELSE IF Len(parts) = 1 THEN parts[1]
    ELSE parts[1] \o sep \o JoinWith(sep, Tail(parts))

\* lst[:n] for n >= 0
Prefix(lst, n) == SubSeq(lst, 1, Min(n, Len(lst)))

-----------------------------------------------------------------------------
(* simple_rag_tool.py: the risk catalog *)

HIGH_INTENSITY_KEYWORDS ==
    << "sprint", "hiit", "high intensity", "fast run", "running fast",
       "burpee", "jump squat", "box jump", "plyometric",
       "max effort", "all-out", "vigorous", "intense cardio" >>

MODERATE_INTENSITY_KEYWORDS ==
    << "run", "jog", "running", "jump", "jumping", "skip", "skipping" >>

DYNAMIC_RISK_BLOCKS ==
    ("fried" :> [blocked |-> HIGH_INTENSITY_KEYWORDS,
                 reason |-> "High-fat/fried food digestion requires blood flow to stomach"])
    @@ ("high_oil" :> [blocked |-> HIGH_INTENSITY_KEYWORDS,
                 reason |-> "Heavy oil content may cause discomfort during vigorous exercise"])
    @@ ("high_sugar" :> [blocked |-> HIGH_INTENSITY_KEYWORDS \o MODERATE_INTENSITY_KEYWORDS,
                 reason |-> "Blood sugar spike may cause energy crash during intense exercise"])
    @@ ("processed" :> [blocked |-> HIGH_INTENSITY_KEYWORDS,
                 reason |-> "Processed food may cause digestive issues during intense activity"])

RagDisclaimer == "Due to the recent consumption of fried/high-sugar food, I've adjusted your plan to lower intensity for your safety."

-----------------------------------------------------------------------------
(* simple_rag_tool.py: get_safe_recommendations, the filter *)

\* lines 211, 213: [c.lower() for c in lst], as characters
LowerAll(lst) == [i \in 1..Len(lst) |-> Lower(Chars[lst[i]])]

\* line 220: `risk in DYNAMIC_RISK_BLOCKS` for a lowercased risk
Recognized(risk) == \E t \in DOMAIN DYNAMIC_RISK_BLOCKS : Chars[t] = risk

\* lines 221-222: DYNAMIC_RISK_BLOCKS[risk]
RiskBlock(risk) ==
    DYNAMIC_RISK_BLOCKS[CHOOSE t \in DOMAIN DYNAMIC_RISK_BLOCKS : Chars[t] = risk]

RECURSIVE blocked_keywords_first_match(_)
\* variant of blocked_keywords: the loop stops at the first recognized risk
blocked_keywords_first_match(risks_lower) ==
    IF Len(risks_lower) = 0 THEN {}
    ELSE LET risk == Head(risks_lower)
         IN  IF Recognized(risk) THEN Range(RiskBlock(risk).blocked)
             ELSE blocked_keywords_first_match(Tail(risks_lower))

RECURSIVE blocked_keywords_unknown_blocks(_)
\* variant of blocked_keywords: a risk outside the vocabulary blocks the
\* high-intensity keywords
blocked_keywords_unknown_blocks(risks_lower) ==
    IF Len(risks_lower) = 0 THEN {}
    ELSE LET risk == Head(risks_lower)
         IN  (IF Recognized(risk) THEN Range(RiskBlock(risk).blocked)
              ELSE Range(HIGH_INTENSITY_KEYWORDS))
             \cup blocked_keywords_unknown_blocks(Tail(risks_lower))

RECURSIVE blocked_keywords(_)
\* lines 216-221: the set built by the loop over dynamic_risks_lower
blocked_keywords(risks_lower) ==
    IF Len(risks_lower) = 0 THEN {}
    ELSE LET risk == Head(risks_lower)
         IN  (IF Recognized(risk) THEN Range(RiskBlock(risk).blocked) ELSE {})
             \cup blocked_keywords(Tail(risks_lower))

RECURSIVE dynamic_warnings(_)
\* lines 217-222: the list of reasons built by the same loop
dynamic_warnings(risks_lower) ==
    IF Len(risks_lower) = 0 THEN << >>
    ELSE LET risk == Head(risks_lower)
         IN  (IF Recognized(risk) THEN <<RiskBlock(risk).reason>> ELSE << >>)
             \o dynamic_warnings(Tail(risks_lower))

\* variant of static_blocked: the contraindication is compared as written
static_blocked_case_sensitive(ex, active_conditions) ==
    \E i \in 1..Len(ex.contraindications) :
        Chars[ex.contraindications[i]] \in Range(active_conditions)

\* lines 236-240: the static contraindication check of one exercise
static_blocked(ex, active_conditions) ==
    \E i \in 1..Len(ex.contraindications) :
        Lower(Chars[ex.contraindications[i]]) \in Range(active_conditions)

\* " ".join(ex.get("tags", [])), as characters
JoinedTags(ex) == JoinWith(Chars[" "], [i \in 1..Len(ex.tags) |-> Chars[ex.tags[i]]])

\* lines 244-247: the composite text f"{ex_name} {ex_category} {ex_tags}"
ex_text(ex) ==
    Lower(Chars[ex.name]) \o Chars[" "] \o Lower(Chars[ex.category]) \o Chars[" "]
        \o Lower(JoinedTags(ex))

\* variant of dynamic_blocked: only the name is searched for keywords
dynamic_blocked_name_only(ex, blocked) ==
    /\ blocked # {}
    /\ LET text == Lower(Chars[ex.name])
       IN  \E keyword \in blocked : Contains(Chars[keyword], text)

\* lines 243-254: the dynamic check of one exercise
dynamic_blocked(ex, blocked) ==
    /\ blocked # {}
    /\ LET text == ex_text(ex)
       IN  \E keyword \in blocked : Contains(Chars[keyword], text)

\* lines 232-256: is_safe at the end of the loop body
is_safe(ex, active_conditions, blocked) ==
    /\ ~static_blocked(ex, active_conditions)
    /\ ~dynamic_blocked(ex, blocked)

RECURSIVE FilterSafe(_, _, _)
\* lines 230-257: the loop that builds safe_list
FilterSafe(catalog, active_conditions, blocked) ==
    IF Len(catalog) = 0 THEN << >>
    ELSE (IF is_safe(Head(catalog), active_conditions, blocked)
          THEN <<Head(catalog)>> ELSE << >>)
         \o FilterSafe(Tail(catalog), active_conditions, blocked)

\* lines 211-257: safe_list for a catalog, conditions and risks as passed in
safe_list(catalog, user_conditions, dynamic_risks) ==
    FilterSafe(catalog, LowerAll(user_conditions),
               blocked_keywords(LowerAll(dynamic_risks)))

-----------------------------------------------------------------------------
(* simple_rag_tool.py: search_exercises *)

MinScore == 60

\* variant: the lowest scores first
Extract_ascending(candidates, score, n) ==
    LET len == Len(candidates)
        Before(i, j) == \/ score[candidates[i]] < score[candidates[j]]
                        \/ (score[candidates[i]] = score[candidates[j]] /\ i < j)
        pos(i) == 1 + Cardinality({j \in 1..len : Before(j, i)})
        sorted == [p \in 1..len |-> CHOOSE i \in 1..len : pos(i) = p]
    IN  Prefix(sorted, n)

\* rapidfuzz process.extract(..., limit=n): best scores first, equal scores
\* in the order of the choices; score[e] is fuzz.WRatio of the query and
\* the composite text of e.  The result is a list of indices.
Extract(candidates, score, n) ==
    LET len == Len(candidates)
        Before(i, j) == \/ score[candidates[i]] > score[candidates[j]]
                        \/ (score[candidates[i]] = score[candidates[j]] /\ i < j)
        pos(i) == 1 + Cardinality({j \in 1..len : Before(j, i)})
        sorted == [p \in 1..len |-> CHOOSE i \in 1..len : pos(i) = p]
    IN  Prefix(sorted, n)

RECURSIVE Matched(_, _, _)
\* lines 184-189: keep the results that reach min_score
Matched(results, candidates, score) ==
    IF Len(results) = 0 THEN << >>
    ELSE (IF score[candidates[Head(results)]] >= MinScore
          THEN <<candidates[Head(results)]>> ELSE << >>)
         \o Matched(Tail(results), candidates, score)

\* variant: the query is not stripped before the test
EmptyQuery_unstripped(query) == Lower(query) = << >>

\* line 167-168: query.lower().strip() is empty; query is the characters
\* of the str
EmptyQuery(query) == Strip(Lower(query)) = << >>

\* variant of search_exercises: the results are not cut to limit
search_exercises_uncut(candidates, query, limit, fuzzy_available, score) ==
    IF EmptyQuery(query) THEN candidates
    ELSE IF fuzzy_available
         THEN Matched(Extract(candidates, score, limit * 2), candidates, score)
         ELSE << >>

\* lines 165-192
search_exercises(candidates, query, limit, fuzzy_available, score) ==
    IF EmptyQuery(query) THEN Prefix(candidates, limit)
    ELSE IF fuzzy_available
         THEN Prefix(Matched(Extract(candidates, score, limit * 2),
                             candidates, score), limit)
         ELSE << >>

-----------------------------------------------------------------------------
(* Inputs of the model *)

\* image_url "" stands for an exercise without an image
ExercisePool ==
    { [name |-> "Fast Running", category |-> "cardio", tags |-> << >>,
       contraindications |-> << >>, image_url |-> ""],
      [name |-> "Brisk Walking", category |-> "daily", tags |-> <<"outdoor">>,
       contraindications |-> << >>, image_url |-> ""],
      [name |-> "Running 6mph", category |-> "cardio", tags |-> << >>,
       contraindications |-> <<"Knee_Injury">>, image_url |-> ""],
      [name |-> "Circuit", category |-> "strength", tags |-> <<"High", "Intensity">>,
       contraindications |-> << >>, image_url |-> ""] }

SeqsUpTo(S, n) == UNION {[1..k -> S] : k \in 0..n}

Catalogs == SeqsUpTo(ExercisePool, MaxCatalog)

ConditionLists == { << >>, <<"asthma", "KNEE_INJURY">> }

RiskTags == { "fried", "FRIED", "High_Sugar", "spicy" }

RiskLists == SeqsUpTo(RiskTags, MaxRisks)

Queries == { "", " \n", " Run " }

Scores == {50, 60, 90}

Orderings(S) ==
    {p \in [1..Cardinality(S) -> S] : \A x \in S : \E i \in DOMAIN p : p[i] = x}

NoAdjustments == [is_none |-> TRUE, blocked_keywords |-> {}, reasons |-> << >>, disclaimer |-> ""]

NoRagArgs == [user_query |-> "", user_conditions |-> << >>, top_k |-> 0, dynamic_risks |-> << >>]

NoRagRet == [safe_exercises |-> << >>, safety_warnings |-> << >>, dynamic_adjustments |-> NoAdjustments]

\* the WRatio scores are only computed on the fuzzy path (lines 171-190)
ScoreTables(candidates, query, fuzzy_available) ==
    IF ~EmptyQuery(query) /\ fuzzy_available
    THEN [Range(candidates) -> Scores]
    ELSE {[e \in Range(candidates) |-> 0]}

\* no call of get_safe_recommendations is in progress
RagIdle ==
    /\ rag_pc = "idle"
    /\ rag_args = NoRagArgs
    /\ rag_ret = NoRagRet

-----------------------------------------------------------------------------
(* fitness_agent.py: _validate_recommendations_against_warnings *)

\* line 151
high_intensity ==
    << "sprint", "fast run", "hiit", "jump", "burpee", "intense", "vigorous", "running" >>

\* variant of Fallback: the replacement is itself a high-intensity activity
Fallback_high_intensity ==
    [name |-> "Slow Running", duration_min |-> 20, kcal_estimate |-> 100,
     reason |-> "Lower intensity alternative - recent meal requires lighter activity",
     image_url |-> ""]

\* lines 173-178: the lower intensity alternative
Fallback ==
    [name |-> "Brisk Walking", duration_min |-> 20, kcal_estimate |-> 100,
     reason |-> "Lower intensity alternative - recent meal requires lighter activity",
     image_url |-> ""]

\* lines 157-167: not is_safe at the end of the loop over high_intensity
violates(rec, warnings) ==
    LET name == Lower(Chars[rec.name])
    IN  \E i \in 1..Len(high_intensity) :
            /\ Contains(Chars[high_intensity[i]], name)
            /\ \/ "fried" \in Range(warnings)
               \/ "high_oil" \in Range(warnings)
               \/ "high_sugar" \in Range(warnings)

RECURSIVE DropViolators(_, _)
DropViolators(recs, warnings) ==
    IF Len(recs) = 0 THEN << >>
    ELSE (IF violates(Head(recs), warnings) THEN << >> ELSE <<Head(recs)>>)
         \o DropViolators(Tail(recs), warnings)

\* variant of the validator: violators are removed instead of replaced
validate_dropping(recommendations, warnings) ==
    IF Len(warnings) = 0
    THEN [validated |-> recommendations, was_adjusted |-> FALSE]
    ELSE [validated |-> DropViolators(recommendations, warnings),
          was_adjusted |-> \E i \in 1..Len(recommendations) :
                              violates(recommendations[i], warnings)]

\* variant of the validator: without warnings it returns the empty list
validate_empty_without_warnings(recommendations, warnings) ==
    IF Len(warnings) = 0
    THEN [validated |-> << >>, was_adjusted |-> FALSE]
    ELSE [validated |->
              [i \in 1..Len(recommendations) |->
                  IF violates(recommendations[i], warnings)
                  THEN Fallback ELSE recommendations[i]],
          was_adjusted |-> \E i \in 1..Len(recommendations) :
                              violates(recommendations[i], warnings)]

\* lines 136-180: the tuple (validated, was_adjusted)
validate_recommendations_against_warnings(recommendations, warnings) ==
    IF Len(warnings) = 0
    THEN [validated |-> recommendations, was_adjusted |-> FALSE]
    ELSE [validated |->
              [i \in 1..Len(recommendations) |->
                  IF violates(recommendations[i], warnings)
                  THEN Fallback ELSE recommendations[i]],
          was_adjusted |-> \E i \in 1..Len(recommendations) :
                              violates(recommendations[i], warnings)]

-----------------------------------------------------------------------------
(* fitness_agent.py: _extract_visual_warnings_from_task *)

\* lines 23-26; the text starts with a warning sign (U+26A0 U+FE0F) and a
\* space, written here as "(!) "
BR001_DISCLAIMER == "(!) Due to the recent consumption of fried/high-sugar food, I've adjusted your plan to lower intensity for your safety."

\* a pattern \bHEAD\b (sep empty) or \bHEAD[sep]?TAIL\b
Pat(head, sep, tail) == [head |-> head, sep |-> sep, tail |-> tail]

Plain(word) == Pat(word, {}, "")

HighSep == {"-", "_", " "}

\* lines 29-34
VISUAL_WARNING_PATTERNS ==
    ("fried" :> << Plain("fried"), Plain("deep-fried"), Plain("fried food") >>)
    @@ ("high_oil" :> << Pat("high", HighSep, "oil"), Pat("high", HighSep, "fat"),
                         Plain("greasy") >>)
    @@ ("high_sugar" :> << Pat("high", HighSep, "sugar"), Plain("sugary"),
                           Plain("sweet"), Plain("glazed") >>)
    @@ ("processed" :> << Plain("processed"), Plain("processed food") >>)

\* the order of the keys of VISUAL_WARNING_PATTERNS, and the list at line 127
WarningOrder == << "fried", "high_oil", "high_sugar", "processed" >>

Digits == {"0", "1", "2", "3", "4", "5", "6", "7", "8", "9"}

\* the CJK ideographs of the model's texts, U+4E00 to U+9FFF, each one
\* character written as its code point
CjkChars == {"U4E86", "U4EFB", "U4F30", "U4F9B", "U5065", "U5145", "U5165", "U5168", "U518D", "U5206", "U521A", "U5230", "U524D", "U52A0", "U52A1", "U52A8", "U539F", "U5403", "U5408", "U540E", "U5426", "U548C", "U54C1", "U578B", "U5907", "U5982", "U59CB", "U5B89", "U5BF9", "U5DE5", "U5EA6", "U5EB7", "U5EFA", "U5F3A", "U5F53", "U5F55", "U5FD8", "U6027", "U6211", "U6237", "U63A8", "U63D0", "U6444", "U65F6", "U662F", "U666E", "U6709", "U673A", "U6807", "U6C34", "U6CB9", "U70B8", "U70ED", "U7269", "U7528", "U7684", "U7B7E", "U7C7B", "U7CD6", "U8003", "U8350", "U8651", "U8865", "U8981", "U8BAE", "U8BC4", "U8BF7", "U8FD0", "U9002", "U901A", "U9192", "U91CF", "U9488", "U949F", "U9669", "U9700", "U98CE", "U98DF", "U996D", "U996E", "U9AD8", "U9E21"}

\* \w of a lowercased text
IsWordChar(c) == c \in Range(LowerAlpha) \/ c \in Digits \/ c = "_" \/ c \in CjkChars

\* the character sequences a pattern matches between its two \b
Expansions(p) ==
    IF p.sep = {} THEN {Chars[p.head]}
    ELSE {Chars[p.head] \o Chars[p.tail]}
         \cup {Chars[p.head] \o Chars[c] \o Chars[p.tail] : c \in p.sep}

\* re.search(r"\b" + lit + r"\b", text): lit starts and ends with a word character
SearchWord(lit, text) ==
    \E i \in 0..(Len(text) - Len(lit)) :
        /\ SubSeq(text, i + 1, i + Len(lit)) = lit
        /\ (i = 0 \/ ~IsWordChar(text[i]))
        /\ (i + Len(lit) = Len(text) \/ ~IsWordChar(text[i + Len(lit) + 1]))

\* line 118: re.search(pattern, task_lower)
PatternFound(p, text) == \E lit \in Expansions(p) : SearchWord(lit, text)

\* lines 116-120: some pattern of the tag is found
TagFound(tag, text) ==
    \E i \in 1..Len(VISUAL_WARNING_PATTERNS[tag]) :
        PatternFound(VISUAL_WARNING_PATTERNS[tag][i], text)

RECURSIVE Method1_first_tag(_, _)
\* variant of Method1: the search ends with the first tag that is found
Method1_first_tag(tags, text) ==
    IF Len(tags) = 0 THEN << >>
    ELSE IF TagFound(Head(tags), text) THEN <<Head(tags)>>
    ELSE Method1_first_tag(Tail(tags), text)

RECURSIVE Method1(_, _)
\* lines 116-120: the tags with a pattern match, in the order of the keys
Method1(tags, text) ==
    IF Len(tags) = 0 THEN << >>
    ELSE (IF TagFound(Head(tags), text) THEN <<Head(tags)>> ELSE << >>)
         \o Method1(Tail(tags), text)

\* \s* starting after offset i: the offset where it stops
SkipSpace(text, i) ==
    CHOOSE j \in i..Len(text) :
        /\ \A k \in (i + 1)..j : text[k] \in WhitespaceChars
        /\ (j = Len(text) \/ text[j + 1] \notin WhitespaceChars)

\* lines 123-124: group 1 of the match of
\* (?:warnings?|visual_warnings?)\s*[:=]\s*\[([^\]]+)\] whose "warning"
\* starts after offset a, as a set holding the group, or {} without a match
ListAt(text, a) ==
    IF a + 7 > Len(text) \/ SubSeq(text, a + 1, a + 7) # Chars["warning"] THEN {}
    ELSE LET b == IF a + 8 <= Len(text) /\ text[a + 8] = "s" THEN a + 8 ELSE a + 7
             c == SkipSpace(text, b)
         IN  IF c + 1 > Len(text) \/ text[c + 1] \notin {":", "="} THEN {}
             ELSE LET d == SkipSpace(text, c + 1)
                  IN  IF d + 1 > Len(text) \/ text[d + 1] # "[" THEN {}
                      ELSE LET closing == {e \in (d + 2)..Len(text) : text[e] = "]"}
                           IN  IF closing = {} THEN {}
                               ELSE LET e == CHOOSE x \in closing : \A y \in closing : x <= y
                                    IN  IF e = d + 2 THEN {}
                                        ELSE {SubSeq(text, d + 2, e - 1)}

\* lines 123-126: match.group(1) of the leftmost match, as a set
WarningList(text) ==
    LET starts == {a \in 0..Len(text) : ListAt(text, a) # {}}
    IN  IF starts = {} THEN {}
        ELSE ListAt(text, CHOOSE a \in starts : \A x \in starts : a <= x)

RECURSIVE Method2_append_all(_, _, _)
\* variant of Method2: a literal found in the list is appended even when
\* warnings holds it already
Method2_append_all(tags, warning_str, warnings) ==
    IF Len(tags) = 0 THEN warnings
    ELSE Method2_append_all(Tail(tags), warning_str,
                 IF Contains(Chars[Head(tags)], warning_str)
                 THEN Append(warnings, Head(tags)) ELSE warnings)

RECURSIVE Method2(_, _, _)
\* lines 127-129: the literals found in the list and not yet in warnings
Method2(tags, warning_str, warnings) ==
    IF Len(tags) = 0 THEN warnings
    ELSE Method2(Tail(tags), warning_str,
                 IF Contains(Chars[Head(tags)], warning_str)
                    /\ Head(tags) \notin Range(warnings)
                 THEN Append(warnings, Head(tags)) ELSE warnings)

\* lines 112-134, for the characters of the task
extract_from_text(text) ==
    LET task_lower == Lower(text)
        warnings == Method1(WarningOrder, task_lower)
        found == WarningList(task_lower)
    IN  IF found = {} THEN warnings
        ELSE Method2(WarningOrder, CHOOSE g \in found : TRUE, warnings)

\* lines 103-134
extract_visual_warnings_from_task(task) == extract_from_text(Chars[task])

\* no call of the extractor is in progress
ExtIdle ==
    /\ ext_pc = "idle"
    /\ ext_task = << >>
    /\ ext_ret = << >>

-----------------------------------------------------------------------------
(* fitness_agent.py: execute and execute_async *)

DefaultTopK == 5

\* the value of the key safety_warnings of a JSON object: kind is "absent",
\* "list", "null" or "str"; items are the entries of a list
Field(kind, items) == [kind |-> kind, items |-> items]

\* a JSON object: the LLM's answer or the agent's response
Json(has_recs, recs, warnings, adjustments) ==
    [has_recommendations |-> has_recs, recommendations |-> recs,
     safety_warnings |-> warnings, dynamic_adjustments |-> adjustments]

NoBody == Json(FALSE, << >>, Field("absent", << >>), "")

\* what a handler returns: kind "json" (json.dumps of body), "raw" (the text
\* of the LLM as it came, body is what that text holds, raw_kind its shape)
\* or "raised" (an exception left the handler)
Response(kind, raw_kind, body) == [kind |-> kind, raw_kind |-> raw_kind, body |-> body]

NoResponse == Response("none", "", NoBody)

NoCall == [mode |-> "", task |-> "", health_conditions |-> << >>,
           llm |-> [kind |-> "", body |-> NoBody]]

NoObs == [visual_warnings |-> << >>, rag_adjustments |-> FALSE,
          validator_called |-> FALSE, was_adjusted |-> FALSE]

AgentIdle ==
    /\ agent_pc = "idle"
    /\ agent_call = NoCall
    /\ agent_obs = NoObs
    /\ agent_resp = NoResponse

\* lines 480-496: the minimal payload of execute
FallbackPayload(visual_warnings) ==
    Json(TRUE,
         << [name |-> "Walking", duration_min |-> 20, kcal_estimate |-> 80,
             reason |-> "General mobility - safe for all conditions", image_url |-> ""] >>,
         Field("list", IF Len(visual_warnings) > 0
                       THEN <<"Consult a professional.", BR001_DISCLAIMER>>
                       ELSE <<"Consult a professional.">>),
         IF Len(visual_warnings) > 0 THEN BR001_DISCLAIMER ELSE "")

\* lines 446-455: json.loads succeeds on a bare object or a ```json fence
ParsesInExecute(llm) == llm.kind \in {"json", "fenced_json"}

\* lines 334-338: the same in execute_async
ParsesInExecuteAsync(llm) == llm.kind \in {"json", "fenced_json"}

\* lines 446-496: from the text of the LLM to the value execute returns
ExecuteOutcome(llm, visual_warnings, rag_adjustments) ==
    IF ~ParsesInExecute(llm)
    THEN \* lines 474-496
         [resp |-> IF llm.kind = "empty"
                   THEN Response("json", "", FallbackPayload(visual_warnings))
                   ELSE Response("raw", llm.kind, llm.body),
          validator_called |-> FALSE, was_adjusted |-> FALSE]
    ELSE IF ~(Len(visual_warnings) > 0 /\ llm.body.has_recommendations)
    THEN \* line 458 false, line 472
         [resp |-> Response("json", "", llm.body),
          validator_called |-> FALSE, was_adjusted |-> FALSE]
    ELSE LET v == validate_recommendations_against_warnings(
                      llm.body.recommendations, visual_warnings)
             sw == llm.body.safety_warnings
         IN  IF ~(v.was_adjusted \/ rag_adjustments)
             THEN [resp |-> Response("json", "",
                       Json(TRUE, v.validated, sw, llm.body.dynamic_adjustments)),
                   validator_called |-> TRUE, was_adjusted |-> v.was_adjusted]
             ELSE IF sw.kind \in {"null", "str"}
             THEN \* line 469: append on a value that is no list raises;
                  \* lines 474-478 return the text of the LLM
                  [resp |-> Response("raw", llm.kind, llm.body),
                   validator_called |-> TRUE, was_adjusted |-> v.was_adjusted]
             ELSE [resp |-> Response("json", "",
                       Json(TRUE, v.validated,
                            Field("list", Append(sw.items, BR001_DISCLAIMER)),
                            BR001_DISCLAIMER)),
                   validator_called |-> TRUE, was_adjusted |-> v.was_adjusted]

\* line 341: the keys of img_map
ImgNames(safe_exercises) ==
    {Lower(Chars[safe_exercises[i].name]) : i \in 1..Len(safe_exercises)}

\* line 341: img_map[name]
ImgOf(safe_exercises, name) ==
    LET last == CHOOSE i \in 1..Len(safe_exercises) :
                   /\ Lower(Chars[safe_exercises[i].name]) = name
                   /\ \A j \in (i + 1)..Len(safe_exercises) :
                         Lower(Chars[safe_exercises[j].name]) # name
    IN  safe_exercises[last].image_url

\* lines 342-348: the recommendations with their images; lookup is what
\* search_exercise_image_async gives for a name: "image", "none" or "raises"
WithImages(recs, safe_exercises, lookup) ==
    [i \in 1..Len(recs) |->
        IF recs[i].image_url # "" THEN recs[i]
        ELSE IF Lower(Chars[recs[i].name]) \in ImgNames(safe_exercises)
        THEN [recs[i] EXCEPT !.image_url = ImgOf(safe_exercises, Lower(Chars[recs[i].name]))]
        ELSE [recs[i] EXCEPT !.image_url = IF lookup = "image" THEN "url" ELSE ""]]

\* lines 346-348: the last resort lookup is called for some recommendation
NeedsLookup(recs, safe_exercises) ==
    \E i \in 1..Len(recs) :
        /\ recs[i].image_url = ""
        /\ Lower(Chars[recs[i].name]) \notin ImgNames(safe_exercises)

\* lines 333-365: from the text of the LLM to the value execute_async returns
ExecuteAsyncOutcome(llm, visual_warnings, safe_exercises, lookup) ==
    IF ~ParsesInExecuteAsync(llm)
    THEN \* lines 363-365
         [resp |-> Response("raw", llm.kind, llm.body),
          validator_called |-> FALSE, was_adjusted |-> FALSE]
    ELSE IF /\ llm.body.has_recommendations
            /\ NeedsLookup(llm.body.recommendations, safe_exercises)
            /\ lookup = "raises"
    THEN \* line 348 raises, lines 363-365
         [resp |-> Response("raw", llm.kind, llm.body),
          validator_called |-> FALSE, was_adjusted |-> FALSE]
    ELSE LET recs == WithImages(llm.body.recommendations, safe_exercises, lookup)
             sw == llm.body.safety_warnings
         IN  IF ~(Len(visual_warnings) > 0 /\ llm.body.has_recommendations)
             THEN [resp |-> Response("json", "",
                       Json(llm.body.has_recommendations, recs, sw,
                            llm.body.dynamic_adjustments)),
                   validator_called |-> FALSE, was_adjusted |-> FALSE]
             ELSE LET v == validate_recommendations_against_warnings(recs, visual_warnings)
                  IN  IF ~v.was_adjusted
                      THEN [resp |-> Response("json", "",
                                Json(TRUE, v.validated, sw, llm.body.dynamic_adjustments)),
                            validator_called |-> TRUE, was_adjusted |-> FALSE]
                      ELSE IF sw.kind \in {"null", "str"}
                      THEN \* line 358: None + list and str + list raise
                           [resp |-> Response("raw", llm.kind, llm.body),
                            validator_called |-> TRUE, was_adjusted |-> TRUE]
                      ELSE [resp |-> Response("json", "",
                                Json(TRUE, v.validated,
                                     Field("list", Append(sw.items, BR001_DISCLAIMER)),
                                     BR001_DISCLAIMER)),
                            validator_called |-> TRUE, was_adjusted |-> TRUE]

\* lines 99-105: the catalog entries after attach_exercise_images_async
Attached(catalog, safe_exercises, lookup) ==
    [i \in 1..Len(catalog) |->
        IF catalog[i] \in Range(safe_exercises) /\ catalog[i].image_url = ""
           /\ lookup = "image"
        THEN [catalog[i] EXCEPT !.image_url = "url"]
        ELSE catalog[i]]

-----------------------------------------------------------------------------
(* coordinator_agent.py: the Health Memo *)

DigitChars == << "0", "1", "2", "3", "4", "5", "6", "7", "8", "9" >>

RECURSIVE IntText(_)
\* f"{n}" and f"{n:.0f}" for a whole number n >= 0
IntText(n) ==
    IF n < 10 THEN <<DigitChars[n + 1]>>
    ELSE IntText(n \div 10) \o <<DigitChars[(n % 10) + 1]>>

\* lines 25-30: a HealthMemo; is_none marks None
HealthMemo(visual_warnings, health_score, dish_name, calorie_intake) ==
    [is_none |-> FALSE, visual_warnings |-> visual_warnings,
     health_score |-> health_score, dish_name |-> dish_name,
     calorie_intake |-> calorie_intake]

NoMemo == [is_none |-> TRUE, visual_warnings |-> << >>, health_score |-> 10,
           dish_name |-> "meal", calorie_intake |-> 0]

\* the keys of a nutrition result; present holds the keys the object has
NutritionBody(present, visual_warnings, health_score, dish_name, calories) ==
    [present |-> present, visual_warnings |-> visual_warnings,
     health_score |-> health_score, dish_name |-> dish_name, calories |-> calories]

NoNutritionBody == NutritionBody({}, << >>, 10, "meal", 0)

\* a nutrition result: kind is "none" (None), "empty_str" (""), "empty_dict"
\* ({}), "bad_json" (a str json.loads rejects), "json_list" (a str holding a
\* JSON list), "dict" or "json_dict" (a str holding a JSON object)
NutritionResult(kind, body) == [kind |-> kind, body |-> body]

\* variant of extract_health_memo: an object without health_score counts as
\* score 5, and the empty object is not turned away at the start
extract_health_memo_low_default(nutrition_result) ==
    IF nutrition_result.kind \in {"none", "empty_str"}
    THEN NoMemo
    ELSE IF nutrition_result.kind \in {"bad_json", "json_list"}
    THEN NoMemo
    ELSE LET body == nutrition_result.body
             visual_warnings == IF "visual_warnings" \in body.present
                                THEN body.visual_warnings ELSE << >>
             health_score == IF "health_score" \in body.present
                             THEN body.health_score ELSE 5
             dish_name == IF "dish_name" \in body.present
                          THEN body.dish_name ELSE "meal"
             calorie_intake == IF "total_macros" \in body.present
                               THEN body.calories ELSE 0
         IN  IF Len(visual_warnings) > 0 \/ health_score < 7
             THEN HealthMemo(visual_warnings, health_score, dish_name, calorie_intake)
             ELSE NoMemo

\* lines 385-422
extract_health_memo(nutrition_result) ==
    IF nutrition_result.kind \in {"none", "empty_str", "empty_dict"}
    THEN NoMemo   \* lines 392-393
    ELSE IF nutrition_result.kind = "bad_json"
    THEN NoMemo   \* line 398 raises, lines 419-422
    ELSE IF nutrition_result.kind = "json_list"
    THEN NoMemo   \* line 400 raises, lines 419-422
    ELSE LET body == nutrition_result.body
             visual_warnings == IF "visual_warnings" \in body.present
                                THEN body.visual_warnings ELSE << >>
             health_score == IF "health_score" \in body.present
                             THEN body.health_score ELSE 10
             dish_name == IF "dish_name" \in body.present
                          THEN body.dish_name ELSE "meal"
             calorie_intake == IF "total_macros" \in body.present
                               THEN body.calories ELSE 0
         IN  IF Len(visual_warnings) > 0 \/ health_score < 7
             THEN HealthMemo(visual_warnings, health_score, dish_name, calorie_intake)
             ELSE NoMemo

\* lines 425-432: text is the characters of the str
detect_language(text) ==
    IF \E i \in 1..Len(text) : text[i] \in CjkChars THEN "cn" ELSE "en"

\* lines 55-63
warning_desc_cn(warnings) ==
    (IF "fried" \in Range(warnings) THEN << <<"U6CB9","U70B8","U98DF","U7269"," ","(","d","e","e","p","-","f","r","i","e","d",")">> >> ELSE << >>)
    \o (IF "high_oil" \in Range(warnings) THEN << <<"U9AD8","U6CB9"," ","(","h","i","g","h"," ","o","i","l"," ","c","o","n","t","e","n","t",")">> >> ELSE << >>)
    \o (IF "high_sugar" \in Range(warnings) THEN << <<"U9AD8","U7CD6"," ","(","h","i","g","h"," ","s","u","g","a","r",")">> >> ELSE << >>)
    \o (IF "processed" \in Range(warnings) THEN << <<"U52A0","U5DE5","U98DF","U54C1"," ","(","p","r","o","c","e","s","s","e","d",")">> >> ELSE << >>)

\* lines 82-90
warning_desc_en(warnings) ==
    (IF "fried" \in Range(warnings) THEN << <<"d","e","e","p","-","f","r","i","e","d">> >> ELSE << >>)
    \o (IF "high_oil" \in Range(warnings) THEN << <<"h","i","g","h","-","f","a","t">> >> ELSE << >>)
    \o (IF "high_sugar" \in Range(warnings) THEN << <<"h","i","g","h","-","s","u","g","a","r">> >> ELSE << >>)
    \o (IF "processed" \in Range(warnings) THEN << <<"p","r","o","c","e","s","s","e","d">> >> ELSE << >>)

\* lines 65-79
injected_context_cn(base_task, warnings, score, dish, calories) ==
    LET warning_desc == warning_desc_cn(warnings)
        warning_str == IF Len(warning_desc) > 0 THEN JoinWith(<<"U3001">>, warning_desc)
                       ELSE <<"U666E","U901A","U996E","U98DF">>
    IN  <<"[","U5065","U5EB7","U5907","U5FD8","U5F55"," ","/"," ","H","e","a","l","t","h"," ","M","e","m","o","]","\n","U7528","U6237","U521A","U521A","U6444","U5165","U4E86",":"," ">>
        \o Chars[dish]
        \o <<"\n","U70ED","U91CF",":"," ","~">>
        \o IntText(calories)
        \o <<" ","k","c","a","l","\n","U98CE","U9669","U6807","U7B7E",":"," ">>
        \o warning_str
        \o <<"\n","U5065","U5EB7","U8BC4","U5206",":"," ">>
        \o IntText(score)
        \o <<"/","1","0","\n","\n","U8003","U8651","U5230","U7528","U6237","U521A","U521A","U6444","U5165","U4E86">>
        \o warning_str
        \o <<"U98DF","U7269","UFF0C","U8BF7","U63D0","U4F9B","U9488","U5BF9","U6027","U7684","U5B89","U5168","U8FD0","U52A8","U5EFA","U8BAE","UFF1A","\n","1","."," ","U8BC4","U4F30","U5F53","U524D","U662F","U5426","U9002","U5408","U9AD8","U5F3A","U5EA6","U8FD0","U52A8","\n","2","."," ","U5EFA","U8BAE","U5408","U9002","U7684","U8FD0","U52A8","U65F6","U673A","UFF08","U5982","U996D","U540E","3","0","U5206","U949F","U518D","U8FD0","U52A8","UFF09","\n","3","."," ","U63A8","U8350","U9002","U5408","U7684","U8FD0","U52A8","U7C7B","U578B","U548C","U5F3A","U5EA6","\n","4","."," ","U5982","U6709","U9700","U8981","UFF0C","U63D0","U9192","U8865","U5145","U6C34","U5206","\n","\n","U539F","U59CB","U4EFB","U52A1",":"," ">>
        \o base_task

\* lines 92-107
injected_context_en(base_task, warnings, score, dish, calories) ==
    LET warning_desc == warning_desc_en(warnings)
        warning_str == IF Len(warning_desc) > 0 THEN JoinWith(<<","," ">>, warning_desc)
                       ELSE <<"r","e","g","u","l","a","r"," ","d","i","e","t">>
    IN  <<"[","H","e","a","l","t","h"," ","M","e","m","o"," ","-"," ","N","u","t","r","i","t","i","o","n"," ","C","o","n","t","e","x","t","]","\n","T","h","e"," ","u","s","e","r"," ","h","a","s"," ","j","u","s","t"," ","c","o","n","s","u","m","e","d",":"," ">>
        \o Chars[dish]
        \o <<"\n","C","a","l","o","r","i","e","s",":"," ","~">>
        \o IntText(calories)
        \o <<" ","k","c","a","l","\n","H","e","a","l","t","h"," ","w","a","r","n","i","n","g","s",":"," ">>
        \o warning_str
        \o <<"\n","H","e","a","l","t","h"," ","s","c","o","r","e",":"," ">>
        \o IntText(score)
        \o <<"/","1","0","\n","\n","T","h","e"," ","u","s","e","r"," ","h","a","s"," ","j","u","s","t"," ","c","o","n","s","u","m","e","d"," ">>
        \o warning_str
        \o <<" ","f","o","o","d"," ","(","W","a","r","n","i","n","g","s",":"," ">>
        \o JoinWith(<<","," ">>, [i \in 1..Len(warnings) |-> Chars[warnings[i]]])
        \o <<")",".","\n","P","l","e","a","s","e"," ","p","r","o","v","i","d","e"," ","e","x","e","r","c","i","s","e"," ","r","e","c","o","m","m","e","n","d","a","t","i","o","n","s"," ","w","i","t","h"," ","a","p","p","r","o","p","r","i","a","t","e"," ","i","n","t","e","n","s","i","t","y"," ","a","d","j","u","s","t","m","e","n","t","s"," ","a","n","d"," ","s","a","f","e","t","y"," ","p","r","e","c","a","u","t","i","o","n","s",":","\n","1","."," ","A","s","s","e","s","s"," ","w","h","e","t","h","e","r"," ","h","i","g","h","-","i","n","t","e","n","s","i","t","y"," ","e","x","e","r","c","i","s","e"," ","i","s"," ","a","p","p","r","o","p","r","i","a","t","e"," ","a","t"," ","t","h","i","s"," ","t","i","m","e","\n","2","."," ","S","u","g","g","e","s","t"," ","o","p","t","i","m","a","l"," ","t","i","m","i","n","g"," ","f","o","r"," ","e","x","e","r","c","i","s","e"," ","(","e",".","g",".",","," ","w","a","i","t"," ","3","0","-","6","0"," ","m","i","n","u","t","e","s"," ","a","f","t","e","r"," ","e","a","t","i","n","g",")","\n","3","."," ","R","e","c","o","m","m","e","n","d"," ","s","u","i","t","a","b","l","e"," ","e","x","e","r","c","i","s","e"," ","t","y","p","e","s"," ","a","n","d"," ","i","n","t","e","n","s","i","t","y"," ","l","e","v","e","l","s","\n","4","."," ","I","n","c","l","u","d","e"," ","h","y","d","r","a","t","i","o","n"," ","r","e","m","i","n","d","e","r","s"," ","i","f"," ","n","e","e","d","e","d","\n","\n","O","r","i","g","i","n","a","l"," ","t","a","s","k",":"," ">>
        \o base_task

\* lines 33-109: base_task is the characters of the task, the result the
\* characters of the task to delegate
build_fitness_task_with_memo(base_task, memo, language) ==
    IF memo.is_none THEN base_task
    ELSE IF Len(memo.visual_warnings) = 0 THEN base_task
    ELSE IF language = "cn"
    THEN injected_context_cn(base_task, memo.visual_warnings, memo.health_score,
                             memo.dish_name, memo.calorie_intake)
    ELSE injected_context_en(base_task, memo.visual_warnings, memo.health_score,
                             memo.dish_name, memo.calorie_intake)

\* lines 434-461; user_input is the characters of the str
build_fitness_task_with_context(base_task, nutrition_result, user_input) ==
    LET memo == extract_health_memo(nutrition_result)
    IN  IF memo.is_none THEN base_task
        ELSE build_fitness_task_with_memo(
                 base_task, memo,
                 IF Len(user_input) > 0 THEN detect_language(user_input) ELSE "en")

NoMemoCall == [base_task |-> "", nutrition_result |-> NutritionResult("none", NoNutritionBody),
               user_input |-> << >>]

NoMemoRet == [memo |-> NoMemo, task |-> << >>]

\* no request of the coordinator is in progress
MemoIdle ==
    /\ memo_pc = "idle"
    /\ memo_call = NoMemoCall
    /\ memo_ret = NoMemoRet

-----------------------------------------------------------------------------
(* api_client.py: the hybrid exercise cache *)

\* the cache file on disk: missing, a raw list (old schema), a dict with "data"
\* (new schema), some other JSON value, or bytes json.load cannot parse
CacheFile(kind, data) == [kind |-> kind, data |-> data]

NoFile == CacheFile("missing", << >>)

\* lines 65-162: the exercises of the pages read before the request of page fail_at
\* raised (fail_at = 0: no request raised); one exercise a page, the n-th fetch
\* sees the provider's n-th revision; image_url is set only when all pages were read
fetch_all_wger_exercises(n, pages, fail_at, images) ==
    LET got == IF fail_at = 0 THEN pages ELSE fail_at - 1
    IN  [ i \in 1..got |->
            [id |-> <<n, i>>,
             image_url |-> IF fail_at # 0 THEN "unset"
                           ELSE IF images THEN "https://wger.de/media/1.png"
                           ELSE "None"] ]

\* lines 164-175: the file after _save_cache wrote data; any error is logged only
save_cache(file, data, disk) ==
    CASE disk = "ok" -> CacheFile("dict", data)
      [] disk = "unwritable" -> file
      [] disk = "truncated" -> CacheFile("corrupt", << >>)

\* lines 34-50: the local file is read and hydrate_cache returns at line 48
loads_file(force_refresh, file) ==
    /\ ~force_refresh
    /\ file.kind \in { "list", "dict", "other" }

\* lines 30-63: the client after hydrate_cache(force_refresh), and what it returned
hydrate_cache(force_refresh, pages, fail_at, images, disk) ==
    IF loads_file(force_refresh, cache_file)
    THEN /\ cache_in_memory' = IF cache_file.kind = "other" THEN cache_in_memory
                               ELSE cache_file.data
         /\ cache_snapshot' = IF cache_file.kind = "other" THEN cache_snapshot
                              ELSE cache_file.data
         /\ cache_ret' = TRUE
         /\ cache_call' = [force_refresh |-> force_refresh, fetched |-> FALSE,
                           pages |-> 0, fail_at |-> 0, file_before |-> cache_file,
                           memory_before |-> cache_in_memory]
         /\ UNCHANGED <<cache_file, cache_fetches>>
    ELSE /\ cache_fetches' = cache_fetches + 1
         /\ cache_call' = [force_refresh |-> force_refresh, fetched |-> TRUE,
                           pages |-> pages, fail_at |-> fail_at,
                           file_before |-> cache_file,
                           memory_before |-> cache_in_memory]
         /\ \E new_data \in { fetch_all_wger_exercises(cache_fetches + 1, pages,
                                                       fail_at, images) } :
                IF new_data # << >>
                THEN /\ cache_in_memory' = new_data
                     /\ cache_file' = save_cache(cache_file, new_data, disk)
                     /\ cache_snapshot' = IF fail_at = 0 THEN new_data
                                          ELSE cache_snapshot
                     /\ cache_ret' = TRUE
                ELSE /\ cache_ret' = FALSE
                     /\ UNCHANGED <<cache_in_memory, cache_file, cache_snapshot>>

\* lines 177-179
get_exercises == cache_in_memory

NoCacheCall == [force_refresh |-> FALSE, fetched |-> FALSE, pages |-> 0, fail_at |-> 0,
                file_before |-> NoFile, memory_before |-> << >>]

\* a client just constructed (lines 16-24), no cache file on disk
CacheIdle ==
    /\ cache_pc = "idle"
    /\ cache_call = NoCacheCall
    /\ cache_ret = FALSE
    /\ cache_in_memory = << >>
    /\ cache_file = NoFile
    /\ cache_snapshot = << >>
    /\ cache_fetches = 0

-----------------------------------------------------------------------------
(* simple_rag_tool.py: get_safe_recommendations, statement by statement *)

\* two requests served by threads (asyncio.to_thread in swarm.py:116 and
\* coordinator_agent.py:232) that share one SimpleRagTool
Threads == { "t1", "t2" }

\* lines 171-182: the results of process.extract on the catalog just read,
\* each with its index and its score
extract_results(space, score, limit) ==
    LET indices == Extract(space, score, limit * 2)
    IN  [ i \in 1..Len(indices) |->
            [idx |-> indices[i], score |-> score[space[indices[i]]]] ]

\* lines 184-188: the results the loop reads self.exercises[idx] for
kept_results(results) == SelectSeq(results, LAMBDA res : res.score >= MinScore)

\* line 189 raises IndexError when the catalog now read is shorter than idx
index_error(results, catalog) ==
    \E i \in 1..Len(kept_results(results)) : kept_results(results)[i].idx > Len(catalog)

\* lines 184-190: matched[:limit], read from the catalog as it is now
matched_now(results, catalog, limit) ==
    Prefix([ i \in 1..Len(kept_results(results)) |->
               catalog[kept_results(results)[i].idx] ], limit)

NoThreadCall == [user_query |-> "", user_conditions |-> << >>, top_k |-> 0,
                 dynamic_risks |-> << >>, score |-> << >>]

NoThreadLocal == [safe_list |-> << >>, original_exercises |-> << >>, results |-> << >>,
                  recs |-> << >>]

NoThreadRet == [raised |-> FALSE, safe_exercises |-> << >>]

\* no thread is inside get_safe_recommendations
ConcIdle ==
    /\ thr_pc = [t \in Threads |-> "idle"]
    /\ thr_call = [t \in Threads |-> NoThreadCall]
    /\ thr_local = [t \in Threads |-> NoThreadLocal]
    /\ thr_ret = [t \in Threads |-> NoThreadRet]
    /\ conc_env = [before |-> << >>, fuzzy_available |-> FALSE]

-----------------------------------------------------------------------------
(* simple_rag_tool.py: get_safe_recommendations, the catalog around the search *)

\* user_query as Python passes it: a str, or None (the annotation is not enforced)
Query(is_none, text) == [is_none |-> is_none, text |-> text]

\* line 167: query.lower() raises AttributeError when query is None
search_raises(user_query) == user_query.is_none

\* lines 260-263: self.exercises after the call; line 263 is skipped when
\* search_exercises raised at line 262
exercises_after(catalog, safe, user_query) ==
    IF search_raises(user_query) THEN safe ELSE catalog

NoFrameCall == [user_query |-> Query(FALSE, ""), user_conditions |-> << >>, top_k |-> 0,
                dynamic_risks |-> << >>, before |-> << >>]

NoFrameRet == [raised |-> FALSE, safe_exercises |-> << >>]

\* no such call is in progress
FrameIdle ==
    /\ frame_pc = "idle"
    /\ frame_call = NoFrameCall
    /\ frame_ret = NoFrameRet

NoSearchCall == [candidates |-> << >>, query |-> "", limit |-> 0,
                 fuzzy_available |-> FALSE, score |-> << >>]

\* no call of search_exercises on its own is in progress
SearchIdle ==
    /\ search_pc = "idle"
    /\ search_call = NoSearchCall
    /\ search_ret = << >>

NoSwarmCall == [user_input |-> "", delegations |-> << >>, done |-> 0]

NoSwarmRet == [runs |-> << >>, agent |-> "", results |-> 0]

\* no request is with the swarm
SwarmIdle ==
    /\ swarm_pc = "idle"
    /\ swarm_call = NoSwarmCall
    /\ swarm_ret = NoSwarmRet

NoDemoMessage == [kind |-> "", author |-> "None", demo_user_id |-> "None"]

\* src/src/discord_bot/profile_utils.py lines 12-18: the module as loaded
DemoIdle ==
    /\ demo_mode = FALSE
    /\ demo_user_id = "None"
    /\ demo_user_profile = << >>
    /\ demo_last = NoDemoMessage
    /\ profile_db = {}

-----------------------------------------------------------------------------
(* Inputs and state machine of the validator *)

Rec(name, duration, kcal) ==
    [name |-> name, duration_min |-> duration, kcal_estimate |-> kcal, reason |-> "Cardio",
     image_url |-> ""]

RecPool ==
    { Rec("HIIT Workout", 20, 250), Rec("Walking", 30, 100),
      Rec("Plyometric Drills", 15, 200), Rec("Jumping Jacks", 10, 90) }

RecLists == SeqsUpTo(RecPool, MaxRecs)

WarningLists == SeqsUpTo(DOMAIN DYNAMIC_RISK_BLOCKS, MaxRisks)

NoValRet == [validated |-> << >>, was_adjusted |-> FALSE]

ValIdle ==
    /\ val_pc = "idle"
    /\ val_args = [recommendations |-> << >>, warnings |-> << >>]
    /\ val_ret = NoValRet
    /\ val_ret2 = NoValRet

InitValidate ==
    /\ exercises = << >>
    /\ RagIdle
    /\ ValIdle
    /\ AgentIdle
    /\ ExtIdle
    /\ MemoIdle
    /\ CacheIdle
    /\ ConcIdle
    /\ FrameIdle
    /\ SearchIdle
    /\ SwarmIdle
    /\ DemoIdle

\* one call of the validator
Validate ==
    /\ val_pc = "idle"
    /\ \E recommendations \in RecLists, warnings \in WarningLists :
        /\ val_args' = [recommendations |-> recommendations, warnings |-> warnings]
        /\ val_ret' = validate_recommendations_against_warnings(recommendations, warnings)
    /\ val_pc' = "validated"
    /\ UNCHANGED <<val_ret2, exercises, rag_vars, agent_vars, ext_vars, memo_vars, cache_vars,
                   conc_vars, frame_vars, search_vars, swarm_vars, demo_vars>>

\* a second call, on the list the first call returned, with the same warnings
Revalidate ==
    /\ val_pc = "validated"
    /\ val_ret2' = validate_recommendations_against_warnings(val_ret.validated,
                                                             val_args.warnings)
    /\ val_pc' = "revalidated"
    /\ UNCHANGED <<val_args, val_ret, exercises, rag_vars, agent_vars, ext_vars,
                   memo_vars, cache_vars,
                   conc_vars, frame_vars, search_vars, swarm_vars, demo_vars>>

\* the caller has taken the result
ValidateDone ==
    /\ val_pc \in {"validated", "revalidated"}
    /\ val_pc' = "idle"
    /\ val_args' = [recommendations |-> << >>, warnings |-> << >>]
    /\ val_ret' = NoValRet
    /\ val_ret2' = NoValRet
    /\ UNCHANGED <<exercises, rag_vars, agent_vars, ext_vars, memo_vars, cache_vars,
                   conc_vars, frame_vars, search_vars, swarm_vars, demo_vars>>

NextValidate == Validate \/ Revalidate \/ ValidateDone

SpecValidate == InitValidate /\ [][NextValidate]_vars

-----------------------------------------------------------------------------
(* Inputs and state machine of the agent *)

Tasks ==
    { "Suggest a workout for today",
      "I ate Fried chicken, can I go for a fast run?",
      "Health warnings: deep-fried, high-sugar (Warnings: fried, high_sugar)",
      "visual_warnings = [high_oily] plan my evening" }

LlmRecPool == { Rec("HIIT Workout", 20, 250), Rec("Walking", 30, 100),
                Rec("Running 6mph", 25, 280) }

LlmRecLists == SeqsUpTo(LlmRecPool, MaxLlmRecs)

LlmWarningFields ==
    { Field("absent", << >>), Field("list", <<"Consult a professional.">>),
      Field("null", << >>), Field("str", << >>) }

LlmBodies ==
    {Json(FALSE, << >>, w, "") : w \in LlmWarningFields}
    \cup {Json(TRUE, r, w, "") : r \in LlmRecLists, w \in LlmWarningFields}

\* the text the LLM returns: a JSON object, bare or in a ```json or ``` fence,
\* other text, or nothing
LlmOutputs ==
    {[kind |-> k, body |-> b] : k \in {"json", "fenced_json", "fenced"}, b \in LlmBodies}
    \cup {[kind |-> "text", body |-> NoBody], [kind |-> "empty", body |-> NoBody]}

Lookups == {"image", "none", "raises"}

ExerciseNamed(n) == CHOOSE e \in ExercisePool : e.name = n

AgentCatalogs == { << >>, <<ExerciseNamed("Brisk Walking"), ExerciseNamed("Running 6mph")>> }

InitAgent ==
    /\ exercises \in AgentCatalogs
    /\ RagIdle
    /\ ValIdle
    /\ AgentIdle
    /\ ExtIdle
    /\ MemoIdle
    /\ CacheIdle
    /\ ConcIdle
    /\ FrameIdle
    /\ SearchIdle
    /\ SwarmIdle
    /\ DemoIdle

\* lines 375-496 for a task with the given characters; task names it in
\* agent_call
execute_task(task, text, health_conditions) ==
    \E visual_warnings \in {extract_from_text(text)} :
        \E rag_adjustments \in {blocked_keywords(LowerAll(visual_warnings)) # {}} :
         \E llm \in LlmOutputs :
          \E out \in {ExecuteOutcome(llm, visual_warnings, rag_adjustments)} :
            /\ agent_call' = [mode |-> "execute", task |-> task,
                              health_conditions |-> health_conditions, llm |-> llm]
            /\ agent_obs' = [visual_warnings |-> visual_warnings,
                             rag_adjustments |-> rag_adjustments,
                             validator_called |-> out.validator_called,
                             was_adjusted |-> out.was_adjusted]
            /\ agent_resp' = out.resp
            /\ UNCHANGED exercises

\* lines 367-496
execute ==
    /\ agent_pc = "idle"
    /\ \E task \in Tasks, health_conditions \in ConditionLists :
          execute_task(task, Chars[task], health_conditions)
    /\ agent_pc' = "returned"
    /\ UNCHANGED <<rag_vars, val_vars, ext_vars, memo_vars, cache_vars,
                   conc_vars, frame_vars, search_vars, swarm_vars, demo_vars>>

\* lines 296-300: what get_safe_recommendations can return as safe_exercises
SafeExercisesOf(catalog, task, health_conditions, visual_warnings) ==
    LET safe == safe_list(catalog, health_conditions, visual_warnings)
    IN  UNION {{search_exercises(safe, task, DefaultTopK, fuzzy_available, score) :
                   score \in ScoreTables(safe, task, fuzzy_available)} :
               fuzzy_available \in BOOLEAN}

\* lines 271-365 for a task with the given characters
execute_async_task(task, text, health_conditions) ==
        \E visual_warnings \in {extract_from_text(text)} :
         \E rag_adjustments \in {blocked_keywords(LowerAll(visual_warnings)) # {}},
            safe_exercises \in SafeExercisesOf(exercises, text, health_conditions,
                                               visual_warnings) :
          \E attach \in IF Len(safe_exercises) > 0 THEN Lookups ELSE {"none"} :
            IF attach = "raises"
            THEN \* line 303: the exception of the lookup leaves the handler
                 /\ agent_call' = [mode |-> "execute_async", task |-> task,
                                   health_conditions |-> health_conditions,
                                   llm |-> NoCall.llm]
                 /\ agent_obs' = [visual_warnings |-> visual_warnings,
                                  rag_adjustments |-> rag_adjustments,
                                  validator_called |-> FALSE, was_adjusted |-> FALSE]
                 /\ agent_resp' = Response("raised", "", NoBody)
                 /\ UNCHANGED exercises
            ELSE \E llm \in LlmOutputs :
                  \E attached \in {Attached(safe_exercises, safe_exercises, attach)} :
                   \E lookup \in IF /\ ParsesInExecuteAsync(llm)
                                    /\ llm.body.has_recommendations
                                    /\ NeedsLookup(llm.body.recommendations, attached)
                                 THEN Lookups ELSE {"none"} :
                    \E out \in {ExecuteAsyncOutcome(llm, visual_warnings, attached, lookup)} :
                      /\ agent_call' = [mode |-> "execute_async", task |-> task,
                                        health_conditions |-> health_conditions,
                                        llm |-> llm]
                      /\ agent_obs' = [visual_warnings |-> visual_warnings,
                                       rag_adjustments |-> rag_adjustments,
                                       validator_called |-> out.validator_called,
                                       was_adjusted |-> out.was_adjusted]
                      /\ agent_resp' = out.resp
                      /\ exercises' = Attached(exercises, safe_exercises, attach)

\* lines 263-365
execute_async ==
    /\ agent_pc = "idle"
    /\ \E task \in Tasks, health_conditions \in ConditionLists :
          execute_async_task(task, Chars[task], health_conditions)
    /\ agent_pc' = "returned"
    /\ UNCHANGED <<rag_vars, val_vars, ext_vars, memo_vars, cache_vars,
                   conc_vars, frame_vars, search_vars, swarm_vars, demo_vars>>

\* the caller has taken the response
agent_done ==
    /\ agent_pc = "returned"
    /\ agent_pc' = "idle"
    /\ agent_call' = NoCall
    /\ agent_obs' = NoObs
    /\ agent_resp' = NoResponse
    /\ UNCHANGED <<exercises, rag_vars, val_vars, ext_vars, memo_vars, cache_vars,
                   conc_vars, frame_vars, search_vars, swarm_vars, demo_vars>>

NextAgent == execute \/ execute_async \/ agent_done

SpecAgent == InitAgent /\ [][NextAgent]_vars

-----------------------------------------------------------------------------
(* Inputs and state machine of the agent with a user profile in the context *)

\* the "conditions" key of the user profile: kind is "missing", "null", "number",
\* "str" or "list"
Conditions(kind, items) == [kind |-> kind, items |-> items]

ProfileConditions ==
    { Conditions("missing", << >>), Conditions("null", << >>),
      Conditions("number", << >>), Conditions("str", <<"asthma">>),
      Conditions("list", << >>), Conditions("list", <<"asthma", "KNEE_INJURY">>) }

\* lines 288 and 396: user_profile.get("conditions", [])
health_conditions_of(conditions) ==
    IF conditions.kind = "missing" THEN Conditions("list", << >>) ELSE conditions

\* simple_rag_tool.py line 211: iterating None or a number raises TypeError
active_conditions_raises(health_conditions) ==
    health_conditions.kind \in { "null", "number" }

\* simple_rag_tool.py line 211: the values c of the loop; a str gives its characters
iterated_conditions(health_conditions) ==
    IF health_conditions.kind = "str"
    THEN Chars[health_conditions.items[1]]
    ELSE health_conditions.items

\* lines 271-300 and 375-408: the filter raised, nothing catches it
raised_in_filter(mode, task, health_conditions) ==
    /\ agent_call' = [mode |-> mode, task |-> task,
                      health_conditions |-> health_conditions, llm |-> NoCall.llm]
    /\ agent_obs' = [visual_warnings |-> extract_visual_warnings_from_task(task),
                     rag_adjustments |-> FALSE, validator_called |-> FALSE,
                     was_adjusted |-> FALSE]
    /\ agent_resp' = Response("raised", "", NoBody)
    /\ UNCHANGED exercises

\* lines 367-496 with a user_profile message in the context
execute_profile ==
    /\ agent_pc = "idle"
    /\ \E task \in Tasks, conditions \in ProfileConditions :
        \E health_conditions \in {health_conditions_of(conditions)} :
          IF active_conditions_raises(health_conditions)
          THEN raised_in_filter("execute", task, health_conditions)
          ELSE execute_task(task, Chars[task], iterated_conditions(health_conditions))
    /\ agent_pc' = "returned"
    /\ UNCHANGED <<rag_vars, val_vars, ext_vars, memo_vars, cache_vars,
                   conc_vars, frame_vars, search_vars, swarm_vars, demo_vars>>

\* lines 263-365 with a user_profile message in the context
execute_async_profile ==
    /\ agent_pc = "idle"
    /\ \E task \in Tasks, conditions \in ProfileConditions :
        \E health_conditions \in {health_conditions_of(conditions)} :
          IF active_conditions_raises(health_conditions)
          THEN raised_in_filter("execute_async", task, health_conditions)
          ELSE execute_async_task(task, Chars[task],
                                  iterated_conditions(health_conditions))
    /\ agent_pc' = "returned"
    /\ UNCHANGED <<rag_vars, val_vars, ext_vars, memo_vars, cache_vars,
                   conc_vars, frame_vars, search_vars, swarm_vars, demo_vars>>

NextProfile == execute_profile \/ execute_async_profile \/ agent_done

SpecProfile == InitAgent /\ [][NextProfile]_vars

-----------------------------------------------------------------------------
(* State machine of the filter *)

InitRag ==
    /\ exercises \in Catalogs
    /\ RagIdle
    /\ ValIdle
    /\ AgentIdle
    /\ ExtIdle
    /\ MemoIdle
    /\ CacheIdle
    /\ ConcIdle
    /\ FrameIdle
    /\ SearchIdle
    /\ SwarmIdle
    /\ DemoIdle

\* lines 194-285: one call of get_safe_recommendations
get_safe_recommendations ==
    /\ rag_pc = "idle"
    /\ \E user_conditions \in ConditionLists, dynamic_risks \in RiskLists :
        \E blocked \in {blocked_keywords(LowerAll(dynamic_risks))},
           warnings \in {dynamic_warnings(LowerAll(dynamic_risks))},
           safe \in {safe_list(exercises, user_conditions, dynamic_risks)} :
            \E user_query \in Queries, top_k \in 0..MaxTopK,
               fuzzy_available \in BOOLEAN,
               unique_reasons \in Orderings(Range(warnings)) :
              \E score \in ScoreTables(safe, Chars[user_query], fuzzy_available) :
                /\ rag_args' = [user_query |-> user_query,
                                user_conditions |-> user_conditions,
                                top_k |-> top_k, dynamic_risks |-> dynamic_risks]
                /\ rag_ret' =
                     [safe_exercises |->
                          search_exercises(safe, Chars[user_query], top_k,
                                           fuzzy_available, score),
                      safety_warnings |-> unique_reasons,
                      dynamic_adjustments |->
                          IF blocked = {} THEN NoAdjustments
                          ELSE [is_none |-> FALSE, blocked_keywords |-> blocked,
                                reasons |-> warnings, disclaimer |-> RagDisclaimer]]
    /\ rag_pc' = "returned"
    /\ UNCHANGED <<exercises, val_vars, agent_vars, ext_vars, memo_vars, cache_vars,
                   conc_vars, frame_vars, search_vars, swarm_vars, demo_vars>>

\* the caller has taken the result; the tool is ready for the next call
rag_done ==
    /\ rag_pc = "returned"
    /\ rag_pc' = "idle"
    /\ rag_args' = NoRagArgs
    /\ rag_ret' = NoRagRet
    /\ UNCHANGED <<exercises, val_vars, agent_vars, ext_vars, memo_vars, cache_vars,
                   conc_vars, frame_vars, search_vars, swarm_vars, demo_vars>>

NextRag == get_safe_recommendations \/ rag_done

SpecRag == InitRag /\ [][NextRag]_vars

-----------------------------------------------------------------------------
(* Inputs and state machine of the warning extractor *)

\* pieces of task text: prose without evidence, prose with a pattern match,
\* the opening of a bracketed list, list contents, the closing bracket
Fragments ==
    { "Plan a walk. ", "I ate Fried chicken. ", "HIGH-SUGAR sweets. ",
      "Warnings: [", "fried, fried", "high_oily, xprocessed", "] " }

FragmentLists == SeqsUpTo(Fragments, MaxFragments)

RECURSIVE TaskText(_)
\* the characters of the task made of the fragments
TaskText(fragments) ==
    IF Len(fragments) = 0 THEN << >>
    ELSE Chars[Head(fragments)] \o TaskText(Tail(fragments))

InitExtract ==
    /\ exercises = << >>
    /\ RagIdle
    /\ ValIdle
    /\ AgentIdle
    /\ ExtIdle
    /\ MemoIdle
    /\ CacheIdle
    /\ ConcIdle
    /\ FrameIdle
    /\ SearchIdle
    /\ SwarmIdle
    /\ DemoIdle

\* lines 103-134: one call of _extract_visual_warnings_from_task
extract ==
    /\ ext_pc = "idle"
    /\ \E task \in FragmentLists :
        /\ ext_task' = task
        /\ ext_ret' = extract_from_text(TaskText(task))
    /\ ext_pc' = "returned"
    /\ UNCHANGED <<exercises, rag_vars, val_vars, agent_vars, memo_vars, cache_vars,
                   conc_vars, frame_vars, search_vars, swarm_vars, demo_vars>>

\* the caller has taken the list
extract_done ==
    /\ ext_pc = "returned"
    /\ ext_pc' = "idle"
    /\ ext_task' = << >>
    /\ ext_ret' = << >>
    /\ UNCHANGED <<exercises, rag_vars, val_vars, agent_vars, memo_vars, cache_vars,
                   conc_vars, frame_vars, search_vars, swarm_vars, demo_vars>>

NextExtract == extract \/ extract_done

SpecExtract == InitExtract /\ [][NextExtract]_vars

-----------------------------------------------------------------------------
(* Inputs and state machine of the coordinator *)

RECURSIVE SubList(_, _)
\* the entries of the list that are in S, in the order of the list
SubList(lst, S) ==
    IF Len(lst) = 0 THEN << >>
    ELSE (IF Head(lst) \in S THEN <<Head(lst)>> ELSE << >>) \o SubList(Tail(lst), S)

\* the visual_warnings of a nutrition result
MemoWarningLists == {SubList(WarningOrder, S) : S \in SUBSET Range(WarningOrder)}

\* dish_name and total_macros of a nutrition result: both absent or both there
Meals == { [present |-> {}, dish_name |-> "meal", calories |-> 0],
           [present |-> {"dish_name", "total_macros"}, dish_name |-> "Glazed Donut",
            calories |-> 650] }

HealthScores == {3, 10}

NutritionBodies ==
    {NutritionBody((IF Len(w) > 0 THEN {"visual_warnings"} ELSE {})
                       \cup (IF score # 10 THEN {"health_score"} ELSE {})
                       \cup meal.present,
                   w, score, meal.dish_name, meal.calories) :
        w \in MemoWarningLists, score \in HealthScores, meal \in Meals}

NutritionResults ==
    {NutritionResult(k, NoNutritionBody) :
        k \in {"none", "empty_str", "empty_dict", "bad_json", "json_list"}}
    \cup {NutritionResult(k, b) : k \in {"dict", "json_dict"}, b \in NutritionBodies}

BaseTasks == { "Suggest a workout for today",
               "I ate Fried chicken, can I go for a fast run?" }

\* the user's message, as characters: none, English, Chinese
UserInputs == { << >>, Chars["Suggest a workout for today"], <<"U6211","U521A","U5403","U4E86","U70B8","U9E21">> }

\* the catalog plays no part in what the coordinator builds
InitMemo ==
    /\ exercises = << >>
    /\ RagIdle
    /\ ValIdle
    /\ AgentIdle
    /\ ExtIdle
    /\ MemoIdle
    /\ CacheIdle
    /\ ConcIdle
    /\ FrameIdle
    /\ SearchIdle
    /\ SwarmIdle
    /\ DemoIdle

\* lines 434-461: the coordinator builds the task for the Fitness agent
coordinate ==
    /\ memo_pc = "idle"
    /\ \E base_task \in BaseTasks, nutrition_result \in NutritionResults,
          user_input \in UserInputs :
        /\ memo_call' = [base_task |-> base_task, nutrition_result |-> nutrition_result,
                         user_input |-> user_input]
        /\ memo_ret' = [memo |-> extract_health_memo(nutrition_result),
                        task |-> build_fitness_task_with_context(
                                     Chars[base_task], nutrition_result, user_input)]
    /\ memo_pc' = "built"
    /\ UNCHANGED <<exercises, rag_vars, val_vars, agent_vars, ext_vars, cache_vars,
                   conc_vars, frame_vars, search_vars, swarm_vars, demo_vars>>

\* the built task goes to the Fitness agent, without context messages
delegate ==
    /\ memo_pc = "built"
    /\ agent_pc = "idle"
    /\ \/ execute_task(memo_call.base_task, memo_ret.task, << >>)
       \/ execute_async_task(memo_call.base_task, memo_ret.task, << >>)
    /\ agent_pc' = "returned"
    /\ memo_pc' = "delegated"
    /\ UNCHANGED <<memo_call, memo_ret, rag_vars, val_vars, ext_vars, cache_vars,
                   conc_vars, frame_vars, search_vars, swarm_vars, demo_vars>>

\* the response went back to the user
memo_done ==
    /\ memo_pc = "delegated"
    /\ memo_pc' = "idle"
    /\ memo_call' = NoMemoCall
    /\ memo_ret' = NoMemoRet
    /\ agent_pc' = "idle"
    /\ agent_call' = NoCall
    /\ agent_obs' = NoObs
    /\ agent_resp' = NoResponse
    /\ UNCHANGED <<exercises, rag_vars, val_vars, ext_vars, cache_vars,
                   conc_vars, frame_vars, search_vars, swarm_vars, demo_vars>>

NextMemo == coordinate \/ delegate \/ memo_done

SpecMemo == InitMemo /\ [][NextMemo]_vars

-----------------------------------------------------------------------------
(* Inputs and state machine of the memo extraction *)

\* the visual_warnings a nutrition result may hold: any list of the known
\* warnings, repeats included
ReportedWarningLists == SeqsUpTo(Range(WarningOrder), MaxWarnings)

ReportedBodies ==
    {NutritionBody((IF Len(w) > 0 THEN {"visual_warnings"} ELSE {})
                       \cup (IF score # 10 THEN {"health_score"} ELSE {})
                       \cup meal.present,
                   w, score, meal.dish_name, meal.calories) :
        w \in ReportedWarningLists, score \in HealthScores, meal \in Meals}

ReportedResults ==
    {NutritionResult(k, NoNutritionBody) :
        k \in {"none", "empty_str", "empty_dict", "bad_json", "json_list"}}
    \cup {NutritionResult(k, b) : k \in {"dict", "json_dict"}, b \in ReportedBodies}

InitExtractMemo ==
    /\ exercises = << >>
    /\ RagIdle
    /\ ValIdle
    /\ AgentIdle
    /\ ExtIdle
    /\ MemoIdle
    /\ CacheIdle
    /\ ConcIdle
    /\ FrameIdle
    /\ SearchIdle
    /\ SwarmIdle
    /\ DemoIdle

\* src/src/coordinator/coordinator_agent.py lines 385-422: one call of
\* extract_health_memo on its own
extract_memo ==
    /\ memo_pc = "idle"
    /\ \E nutrition_result \in ReportedResults :
        /\ memo_call' = [NoMemoCall EXCEPT !.nutrition_result = nutrition_result]
        /\ memo_ret' = [NoMemoRet EXCEPT !.memo = extract_health_memo(nutrition_result)]
    /\ memo_pc' = "extracted"
    /\ UNCHANGED <<exercises, rag_vars, val_vars, agent_vars, ext_vars, cache_vars,
                   conc_vars, frame_vars, search_vars, swarm_vars, demo_vars>>

\* the caller took the memo
extract_memo_done ==
    /\ memo_pc = "extracted"
    /\ memo_pc' = "idle"
    /\ memo_call' = NoMemoCall
    /\ memo_ret' = NoMemoRet
    /\ UNCHANGED <<exercises, rag_vars, val_vars, agent_vars, ext_vars, cache_vars,
                   conc_vars, frame_vars, search_vars, swarm_vars, demo_vars>>

NextExtractMemo == extract_memo \/ extract_memo_done

SpecExtractMemo == InitExtractMemo /\ [][NextExtractMemo]_vars

-----------------------------------------------------------------------------
(* Inputs and state machine of the task injection *)

\* src/src/coordinator/coordinator_agent.py line 33: a call that passes the
\* base task and the memo only takes the default of the language parameter
build_fitness_task_with_memo_default(base_task, memo) ==
    build_fitness_task_with_memo(base_task, memo, "en")

\* the memos a caller may pass: none, or any warnings, score and meal
Memos ==
    {NoMemo}
    \cup {HealthMemo(w, score, meal.dish_name, meal.calories) :
            w \in MemoWarningLists, score \in HealthScores, meal \in Meals}

InjectTasks == { "Suggest appropriate exercises.", "Suggest a workout for today" }

InitInject ==
    /\ exercises = << >>
    /\ RagIdle
    /\ ValIdle
    /\ AgentIdle
    /\ ExtIdle
    /\ MemoIdle
    /\ CacheIdle
    /\ ConcIdle
    /\ FrameIdle
    /\ SearchIdle
    /\ SwarmIdle
    /\ DemoIdle

\* lines 33-109: one call of _build_fitness_task_with_memo(base_task, memo)
inject ==
    /\ memo_pc = "idle"
    /\ \E base_task \in InjectTasks, memo \in Memos :
        /\ memo_call' = [NoMemoCall EXCEPT !.base_task = base_task]
        /\ memo_ret' = [memo |-> memo,
                        task |-> build_fitness_task_with_memo_default(Chars[base_task],
                                                                      memo)]
    /\ memo_pc' = "injected"
    /\ UNCHANGED <<exercises, rag_vars, val_vars, agent_vars, ext_vars, cache_vars,
                   conc_vars, frame_vars, search_vars, swarm_vars, demo_vars>>

\* the caller took the task
inject_done ==
    /\ memo_pc = "injected"
    /\ memo_pc' = "idle"
    /\ memo_call' = NoMemoCall
    /\ memo_ret' = NoMemoRet
    /\ UNCHANGED <<exercises, rag_vars, val_vars, agent_vars, ext_vars, cache_vars,
                   conc_vars, frame_vars, search_vars, swarm_vars, demo_vars>>

NextInject == inject \/ inject_done

SpecInject == InitInject /\ [][NextInject]_vars

-----------------------------------------------------------------------------
(* Inputs and state machine of the swarm *)

\* one entry of the list the router returns
Delegation(agent, task) == [agent |-> agent, task |-> task]

\* src/src/coordinator/coordinator_agent.py lines 354-379, given what the
\* keyword tests of lines 351-352 and 362 found in the task
simple_delegate(task, has_fitness, has_nutrition, ate) ==
    IF has_nutrition /\ has_fitness
    THEN <<Delegation("nutrition", task),
           Delegation("fitness",
               "Based on the previous nutrition analysis, suggest appropriate exercises.")>>
    ELSE IF has_nutrition /\ ate
    THEN <<Delegation("nutrition", task),
           Delegation("fitness", "Suggest exercises to balance this meal intake")>>
    ELSE IF has_fitness
    THEN <<Delegation("fitness", task)>>
    ELSE <<Delegation("nutrition", task)>>

\* requests, each with what the keyword tests find in it
SwarmRequests ==
    { [user_input |-> "I ate Fried chicken, can I go for a fast run?",
       has_fitness |-> TRUE, has_nutrition |-> TRUE, ate |-> TRUE],
      [user_input |-> "I just ate a burger",
       has_fitness |-> FALSE, has_nutrition |-> TRUE, ate |-> TRUE],
      [user_input |-> "Suggest a workout for today",
       has_fitness |-> TRUE, has_nutrition |-> FALSE, ate |-> FALSE],
      [user_input |-> "What is in this dish?",
       has_fitness |-> FALSE, has_nutrition |-> TRUE, ate |-> FALSE] }

\* what NutritionAgent.execute_async returns is a str
SwarmNutritionResults == {r \in NutritionResults : r.kind \in {"empty_str", "bad_json", "json_list", "json_dict"}}

\* daily_value_percentage.calories of a nutrition result
CaloriePercentages == {0, 60}

\* src/src/swarm.py lines 98-109: the flag the swarm adds to a nutrition result
suggest_fitness_transfer(res, cal_pct) ==
    IF res.kind # "json_dict"
    THEN FALSE   \* lines 99-100 raise, lines 108-109
    ELSE LET warnings == IF "visual_warnings" \in res.body.present
                         THEN LowerAll(res.body.visual_warnings) ELSE << >>
         IN  \/ cal_pct > 50
             \/ \E i \in 1..Len(warnings) :
                    \/ Contains(<<"f","r","i","e","d">>, warnings[i])
                    \/ Contains(<<"o","i","l">>, warnings[i])
                    \/ Contains(<<"g","r","e","a","s","y">>, warnings[i])

\* one agent the swarm ran: its task, what it returned and, for the Fitness
\* agent, the dynamic risks it filtered with
SwarmRun(agent, task, result, transfer, risks) ==
    [agent |-> agent, task |-> task, result |-> result,
     suggest_fitness_transfer |-> transfer, dynamic_risks |-> risks]

InitSwarm ==
    /\ exercises \in AgentCatalogs
    /\ RagIdle
    /\ ValIdle
    /\ AgentIdle
    /\ ExtIdle
    /\ MemoIdle
    /\ CacheIdle
    /\ ConcIdle
    /\ FrameIdle
    /\ SearchIdle
    /\ SwarmIdle
    /\ DemoIdle

\* src/src/swarm.py lines 69-73: the router splits the request
swarm_route ==
    /\ swarm_pc = "idle"
    /\ \E r \in SwarmRequests :
        swarm_call' = [user_input |-> r.user_input,
                       delegations |-> simple_delegate(r.user_input, r.has_fitness,
                                                       r.has_nutrition, r.ate),
                       done |-> 0]
    /\ swarm_ret' = NoSwarmRet
    /\ swarm_pc' = "running"
    /\ UNCHANGED <<exercises, rag_vars, val_vars, agent_vars, ext_vars, memo_vars,
                   cache_vars, conc_vars, frame_vars, search_vars, demo_vars>>

\* src/src/swarm.py lines 87-112: the next delegation goes to the Nutrition agent
swarm_nutrition ==
    /\ swarm_pc = "running"
    /\ swarm_call.done < Len(swarm_call.delegations)
    /\ LET delegation == swarm_call.delegations[swarm_call.done + 1]
       IN  /\ delegation.agent = "nutrition"
           /\ \E res \in SwarmNutritionResults, cal_pct \in CaloriePercentages :
                swarm_ret' = [swarm_ret EXCEPT
                    !.runs = Append(@, SwarmRun("nutrition", delegation.task, res,
                                                suggest_fitness_transfer(res, cal_pct),
                                                << >>)),
                    !.agent = "nutrition"]
    /\ swarm_call' = [swarm_call EXCEPT !.done = @ + 1]
    /\ UNCHANGED <<swarm_pc, exercises, rag_vars, val_vars, agent_vars, ext_vars,
                   memo_vars, cache_vars, conc_vars, frame_vars, search_vars, demo_vars>>

\* src/src/swarm.py lines 79-85: the next delegation goes to the Fitness agent,
\* with the task of the delegation and the user context; an exception of the
\* agent leaves execute_async
swarm_fitness ==
    /\ swarm_pc = "running"
    /\ swarm_call.done < Len(swarm_call.delegations)
    /\ agent_pc = "idle"
    /\ LET delegation == swarm_call.delegations[swarm_call.done + 1]
       IN  /\ delegation.agent = "fitness"
           /\ execute_async_task(delegation.task, Chars[delegation.task], << >>)
           /\ swarm_ret' = [swarm_ret EXCEPT
                  !.runs = Append(@, SwarmRun("fitness", delegation.task, agent_resp',
                                              FALSE, agent_obs'.visual_warnings)),
                  !.agent = "fitness"]
    /\ agent_pc' = "returned"
    /\ swarm_pc' = IF agent_resp'.kind = "raised" THEN "raised" ELSE "running"
    /\ swarm_call' = [swarm_call EXCEPT !.done = @ + 1]
    /\ UNCHANGED <<rag_vars, val_vars, ext_vars, memo_vars, cache_vars, conc_vars,
                   frame_vars, search_vars, demo_vars>>

\* src/src/swarm.py lines 119-125: one result goes back as it is, several go
\* through the router's synthesis
swarm_return ==
    /\ swarm_pc = "running"
    /\ swarm_call.done = Len(swarm_call.delegations)
    /\ swarm_ret' = [swarm_ret EXCEPT
           !.agent = IF Len(swarm_ret.runs) = 1 THEN @ ELSE "router",
           !.results = Len(swarm_ret.runs)]
    /\ swarm_pc' = "returned"
    /\ UNCHANGED <<swarm_call, exercises, rag_vars, val_vars, agent_vars, ext_vars,
                   memo_vars, cache_vars, conc_vars, frame_vars, search_vars, demo_vars>>

\* the response went back to the user, or the exception to the caller
swarm_done ==
    /\ swarm_pc \in {"returned", "raised"}
    /\ swarm_pc' = "idle"
    /\ swarm_call' = NoSwarmCall
    /\ swarm_ret' = NoSwarmRet
    /\ agent_pc' = "idle"
    /\ agent_call' = NoCall
    /\ agent_obs' = NoObs
    /\ agent_resp' = NoResponse
    /\ UNCHANGED <<exercises, rag_vars, val_vars, ext_vars, memo_vars, cache_vars,
                   conc_vars, frame_vars, search_vars, demo_vars>>

NextSwarm == swarm_route \/ swarm_nutrition \/ swarm_fitness \/ swarm_return \/ swarm_done

SpecSwarm == InitSwarm /\ [][NextSwarm]_vars

-----------------------------------------------------------------------------
(* Inputs and state machine of demo mode *)

Users == {"u1", "u2"}

\* src/src/discord_bot/profile_utils.py lines 30-58: the saved profile of the
\* user has a name
has_named_profile(user_id) == user_id \in profile_db

\* the message just handled
DemoMessage(kind, author) == [kind |-> kind, author |-> author, demo_user_id |-> demo_user_id]

\* profile_utils.py lines 12-18 for the module, with the profiles saved before
InitDemo ==
    /\ exercises = << >>
    /\ RagIdle
    /\ ValIdle
    /\ AgentIdle
    /\ ExtIdle
    /\ MemoIdle
    /\ CacheIdle
    /\ ConcIdle
    /\ FrameIdle
    /\ SearchIdle
    /\ SwarmIdle
    /\ demo_mode = FALSE
    /\ demo_user_id = "None"
    /\ demo_user_profile = << >>
    /\ demo_last = NoDemoMessage
    /\ profile_db \in SUBSET Users

DemoOthersUnchanged ==
    UNCHANGED <<exercises, rag_vars, val_vars, agent_vars, ext_vars, memo_vars,
                cache_vars, conc_vars, frame_vars, search_vars, swarm_vars>>

\* src/src/discord_bot/commands.py lines 105-130: /demo (bot.py lines 276-278)
handle_demo_command(user_id) ==
    /\ IF ~demo_mode /\ has_named_profile(user_id)
       THEN /\ demo_mode' = TRUE
            /\ demo_user_id' = user_id
            /\ demo_user_profile' =
                   [u \in DOMAIN demo_user_profile \cup {user_id} |->
                       IF u = user_id THEN "saved" ELSE demo_user_profile[u]]
       ELSE UNCHANGED <<demo_mode, demo_user_id, demo_user_profile>>
    /\ demo_last' = DemoMessage("demo", user_id)
    /\ UNCHANGED profile_db
    /\ DemoOthersUnchanged

\* commands.py lines 10-21: the user submits the registration modal that
\* /demo, /setup, a greeting or /reset offered
on_registration_modal_submit(user_id) ==
    /\ demo_user_profile' =
           [u \in DOMAIN demo_user_profile \cup {user_id} |->
               IF u = user_id THEN "registration" ELSE demo_user_profile[u]]
    /\ demo_last' = DemoMessage("registration", user_id)
    /\ UNCHANGED <<demo_mode, demo_user_id, profile_db>>
    /\ DemoOthersUnchanged

\* src/src/discord_bot/views.py lines 409-442: the last step of the
\* registration saves the profile
registration_saved(user_id) ==
    /\ user_id \in DOMAIN demo_user_profile
    /\ demo_user_profile[user_id] = "registration"
    /\ profile_db' = profile_db \cup {user_id}
    /\ demo_last' = DemoMessage("saved", user_id)
    /\ UNCHANGED <<demo_mode, demo_user_id, demo_user_profile>>
    /\ DemoOthersUnchanged

\* commands.py lines 132-140
handle_exit_command(user_id) ==
    /\ demo_mode' = FALSE
    /\ demo_user_id' = "None"
    /\ demo_user_profile' =
           [u \in DOMAIN demo_user_profile \ {user_id} |-> demo_user_profile[u]]

\* src/src/discord_bot/bot.py lines 280-282 (/exit) and 388-391 (/quit)
exit_message(user_id, content) ==
    /\ IF content = "/exit" \/ demo_mode
       THEN handle_exit_command(user_id)
       ELSE UNCHANGED <<demo_mode, demo_user_id, demo_user_profile>>
    /\ demo_last' = DemoMessage(content, user_id)
    /\ UNCHANGED profile_db
    /\ DemoOthersUnchanged

\* commands.py lines 45-55: /reset deletes the saved profile
handle_reset_command(user_id) ==
    /\ profile_db' = profile_db \ {user_id}
    /\ demo_last' = DemoMessage("/reset", user_id)
    /\ UNCHANGED <<demo_mode, demo_user_id, demo_user_profile>>
    /\ DemoOthersUnchanged

NextDemo ==
    \E user_id \in Users :
        \/ handle_demo_command(user_id)
        \/ on_registration_modal_submit(user_id)
        \/ registration_saved(user_id)
        \/ \E content \in {"/exit", "/quit"} : exit_message(user_id, content)
        \/ handle_reset_command(user_id)

SpecDemo == InitDemo /\ [][NextDemo]_vars

-----------------------------------------------------------------------------
(* Inputs and state machine of the exercise cache *)

\* a snapshot an earlier process hydrated in full and saved
OldSnapshot == fetch_all_wger_exercises(0, MaxPages, 0, TRUE)

InitialFiles ==
    { NoFile, CacheFile("list", OldSnapshot), CacheFile("dict", OldSnapshot),
      CacheFile("other", << >>), CacheFile("corrupt", << >>) }

DiskOutcomes == { "ok", "unwritable", "truncated" }

\* a client just constructed, whatever an earlier process left on disk
InitCache ==
    /\ exercises = << >>
    /\ RagIdle
    /\ ValIdle
    /\ AgentIdle
    /\ ExtIdle
    /\ MemoIdle
    /\ cache_pc = "idle"
    /\ cache_call = NoCacheCall
    /\ cache_ret = FALSE
    /\ cache_in_memory = << >>
    /\ cache_file \in InitialFiles
    /\ cache_snapshot = << >>
    /\ cache_fetches = 0
    /\ ConcIdle
    /\ FrameIdle
    /\ SearchIdle
    /\ SwarmIdle
    /\ DemoIdle

\* simple_rag_tool.py:75 hydrate_cache(), update_exercise_cache.py:39
\* hydrate_cache(force_refresh=True)
hydrate ==
    /\ cache_pc = "idle"
    /\ cache_fetches < MaxFetches
    /\ \E force_refresh \in BOOLEAN, pages \in 1..MaxPages, images \in BOOLEAN,
          disk \in DiskOutcomes :
         \E fail_at \in 0..pages :
            hydrate_cache(force_refresh, pages, fail_at, images, disk)
    /\ cache_pc' = "returned"
    /\ UNCHANGED <<exercises, rag_vars, val_vars, agent_vars, ext_vars, memo_vars,
                   conc_vars, frame_vars, search_vars, swarm_vars, demo_vars>>

\* the caller took the result
hydrate_done ==
    /\ cache_pc = "returned"
    /\ cache_pc' = "idle"
    /\ UNCHANGED <<cache_call, cache_ret, cache_in_memory, cache_file, cache_snapshot,
                   cache_fetches>>
    /\ UNCHANGED <<exercises, rag_vars, val_vars, agent_vars, ext_vars, memo_vars,
                   conc_vars, frame_vars, search_vars, swarm_vars, demo_vars>>

NextCache == hydrate \/ hydrate_done

SpecCache == InitCache /\ [][NextCache]_vars

-----------------------------------------------------------------------------
(* Inputs and state machine of two concurrent calls of the filter *)

\* a catalog holds each exercise once; three exercises of the pool
ConcCatalogs ==
    { c \in Catalogs :
        \A i, j \in 1..Len(c) : (c[i] = c[j] => i = j) /\ c[i].name # "Circuit" }

ConcRiskLists == { << >>, <<"fried">> }

ConcQueries == { "", " Run " }

ConcScores == { 50, 90 }

\* fuzz.WRatio of the call's query and each exercise of the catalog
ConcScoreTables(catalog, query, fuzzy_available) ==
    IF ~EmptyQuery(query) /\ fuzzy_available
    THEN [Range(catalog) -> ConcScores]
    ELSE {[e \in Range(catalog) |-> 0]}

InitConc ==
    /\ exercises \in ConcCatalogs
    /\ RagIdle
    /\ ValIdle
    /\ AgentIdle
    /\ ExtIdle
    /\ MemoIdle
    /\ CacheIdle
    /\ thr_pc = [t \in Threads |-> "idle"]
    /\ thr_call = [t \in Threads |-> NoThreadCall]
    /\ thr_local = [t \in Threads |-> NoThreadLocal]
    /\ thr_ret = [t \in Threads |-> NoThreadRet]
    /\ \E fuzzy_available \in BOOLEAN :
         conc_env = [before |-> exercises, fuzzy_available |-> fuzzy_available]
    /\ FrameIdle
    /\ SearchIdle
    /\ SwarmIdle
    /\ DemoIdle

ConcOthersUnchanged ==
    UNCHANGED <<rag_vars, val_vars, agent_vars, ext_vars, memo_vars, cache_vars,
                frame_vars, search_vars, swarm_vars, demo_vars>>

\* lines 194-227: a thread enters get_safe_recommendations with its arguments
thread_call(t) ==
    /\ thr_pc[t] = "idle"
    /\ \E user_query \in ConcQueries, user_conditions \in ConditionLists,
          dynamic_risks \in ConcRiskLists :
         \E score \in ConcScoreTables(conc_env.before, Chars[user_query],
                                      conc_env.fuzzy_available) :
            thr_call' = [thr_call EXCEPT ![t] =
                           [user_query |-> user_query, user_conditions |-> user_conditions,
                            top_k |-> MaxTopK, dynamic_risks |-> dynamic_risks,
                            score |-> score]]
    /\ thr_pc' = [thr_pc EXCEPT ![t] = "filter"]
    /\ UNCHANGED <<exercises, thr_local, thr_ret, conc_env>>
    /\ ConcOthersUnchanged

\* lines 229-257: the loop over self.exercises, read once at line 231
thread_filter(t) ==
    /\ thr_pc[t] = "filter"
    /\ thr_local' = [thr_local EXCEPT ![t].safe_list =
                        safe_list(exercises, thr_call[t].user_conditions,
                                  thr_call[t].dynamic_risks)]
    /\ thr_pc' = [thr_pc EXCEPT ![t] = "save"]
    /\ UNCHANGED <<exercises, thr_call, thr_ret, conc_env>>
    /\ ConcOthersUnchanged

\* line 260: original_exercises = self.exercises
thread_save(t) ==
    /\ thr_pc[t] = "save"
    /\ thr_local' = [thr_local EXCEPT ![t].original_exercises = exercises]
    /\ thr_pc' = [thr_pc EXCEPT ![t] = "swap"]
    /\ UNCHANGED <<exercises, thr_call, thr_ret, conc_env>>
    /\ ConcOthersUnchanged

\* line 261: self.exercises = safe_list
thread_swap(t) ==
    /\ thr_pc[t] = "swap"
    /\ exercises' = thr_local[t].safe_list
    /\ thr_pc' = [thr_pc EXCEPT ![t] = "search"]
    /\ UNCHANGED <<thr_call, thr_local, thr_ret, conc_env>>
    /\ ConcOthersUnchanged

\* line 262, search_exercises lines 167-182: an empty query returns
\* self.exercises[:limit]; otherwise the search space is built from
\* self.exercises as read at line 173
thread_search(t) ==
    /\ thr_pc[t] = "search"
    /\ IF EmptyQuery(Chars[thr_call[t].user_query])
       THEN /\ thr_local' = [thr_local EXCEPT ![t].recs =
                                Prefix(exercises, thr_call[t].top_k)]
            /\ thr_pc' = [thr_pc EXCEPT ![t] = "restore"]
       ELSE IF conc_env.fuzzy_available
       THEN /\ thr_local' = [thr_local EXCEPT ![t].results =
                                extract_results(exercises, thr_call[t].score,
                                                thr_call[t].top_k)]
            /\ thr_pc' = [thr_pc EXCEPT ![t] = "matched"]
       ELSE /\ thr_local' = [thr_local EXCEPT ![t].recs = << >>]
            /\ thr_pc' = [thr_pc EXCEPT ![t] = "restore"]
    /\ UNCHANGED <<exercises, thr_call, thr_ret, conc_env>>
    /\ ConcOthersUnchanged

\* search_exercises lines 184-190: self.exercises[idx] for each result kept
\* (the reads of the loop taken together); an IndexError leaves
\* get_safe_recommendations before line 263
thread_matched(t) ==
    /\ thr_pc[t] = "matched"
    /\ IF index_error(thr_local[t].results, exercises)
       THEN /\ thr_ret' = [thr_ret EXCEPT ![t] =
                             [raised |-> TRUE, safe_exercises |-> << >>]]
            /\ thr_pc' = [thr_pc EXCEPT ![t] = "returned"]
            /\ UNCHANGED thr_local
       ELSE /\ thr_local' = [thr_local EXCEPT ![t].recs =
                                matched_now(thr_local[t].results, exercises,
                                            thr_call[t].top_k)]
            /\ thr_pc' = [thr_pc EXCEPT ![t] = "restore"]
            /\ UNCHANGED thr_ret
    /\ UNCHANGED <<exercises, thr_call, conc_env>>
    /\ ConcOthersUnchanged

\* lines 263-285: self.exercises = original_exercises, and the result is
\* returned; its warnings and adjustments come from the arguments alone
thread_restore(t) ==
    /\ thr_pc[t] = "restore"
    /\ exercises' = thr_local[t].original_exercises
    /\ thr_ret' = [thr_ret EXCEPT ![t] =
                     [raised |-> FALSE, safe_exercises |-> thr_local[t].recs]]
    /\ thr_pc' = [thr_pc EXCEPT ![t] = "returned"]
    /\ UNCHANGED <<thr_call, thr_local, conc_env>>
    /\ ConcOthersUnchanged

\* both callers took their results; the tool goes on with the catalog it has
threads_done ==
    /\ \A t \in Threads : thr_pc[t] = "returned"
    /\ thr_pc' = [t \in Threads |-> "idle"]
    /\ thr_call' = [t \in Threads |-> NoThreadCall]
    /\ thr_local' = [t \in Threads |-> NoThreadLocal]
    /\ thr_ret' = [t \in Threads |-> NoThreadRet]
    /\ conc_env' = [conc_env EXCEPT !.before = exercises]
    /\ UNCHANGED exercises
    /\ ConcOthersUnchanged

NextConc ==
    \/ \E t \in Threads : thread_call(t)
    \/ \E t \in Threads : thread_filter(t)
    \/ \E t \in Threads : thread_save(t)
    \/ \E t \in Threads : thread_swap(t)
    \/ \E t \in Threads : thread_search(t)
    \/ \E t \in Threads : thread_matched(t)
    \/ \E t \in Threads : thread_restore(t)
    \/ threads_done

SpecConc == InitConc /\ [][NextConc]_vars

-----------------------------------------------------------------------------
(* Inputs and state machine of single calls of the filter, any query *)

FrameQueries == { Query(TRUE, "") } \cup { Query(FALSE, q) : q \in Queries }

InitFrame ==
    /\ exercises \in ConcCatalogs
    /\ RagIdle
    /\ ValIdle
    /\ AgentIdle
    /\ ExtIdle
    /\ MemoIdle
    /\ CacheIdle
    /\ ConcIdle
    /\ FrameIdle
    /\ SearchIdle
    /\ SwarmIdle
    /\ DemoIdle

\* lines 194-285: one call, alone on the tool; scores as WRatio gives them
filter_call ==
    /\ frame_pc = "idle"
    /\ \E user_conditions \in ConditionLists, dynamic_risks \in ConcRiskLists :
        \E safe \in {safe_list(exercises, user_conditions, dynamic_risks)} :
          \E user_query \in FrameQueries, top_k \in 0..MaxTopK, fuzzy_available \in BOOLEAN :
            \E score \in ConcScoreTables(safe, Chars[user_query.text], fuzzy_available) :
              /\ frame_call' = [user_query |-> user_query,
                                user_conditions |-> user_conditions, top_k |-> top_k,
                                dynamic_risks |-> dynamic_risks, before |-> exercises]
              /\ frame_ret' =
                    IF search_raises(user_query)
                    THEN [raised |-> TRUE, safe_exercises |-> << >>]
                    ELSE [raised |-> FALSE,
                          safe_exercises |->
                              search_exercises(safe, Chars[user_query.text], top_k,
                                               fuzzy_available, score)]
              /\ exercises' = exercises_after(exercises, safe, user_query)
    /\ frame_pc' = "returned"
    /\ UNCHANGED <<rag_vars, val_vars, agent_vars, ext_vars, memo_vars, cache_vars,
                   conc_vars, search_vars, swarm_vars, demo_vars>>

\* the caller took the result or caught the exception; the tool stays in use
filter_done ==
    /\ frame_pc = "returned"
    /\ frame_pc' = "idle"
    /\ frame_call' = NoFrameCall
    /\ frame_ret' = NoFrameRet
    /\ UNCHANGED <<exercises, rag_vars, val_vars, agent_vars, ext_vars, memo_vars,
                   cache_vars, conc_vars, search_vars, swarm_vars, demo_vars>>

NextFrame == filter_call \/ filter_done

SpecFrame == InitFrame /\ [][NextFrame]_vars

-----------------------------------------------------------------------------
(* Inputs and state machine of search_exercises *)

CandidateLists == SeqsUpTo(ExercisePool, MaxCandidates)

InitSearch ==
    /\ exercises = << >>
    /\ RagIdle
    /\ ValIdle
    /\ AgentIdle
    /\ ExtIdle
    /\ MemoIdle
    /\ CacheIdle
    /\ ConcIdle
    /\ FrameIdle
    /\ SearchIdle
    /\ SwarmIdle
    /\ DemoIdle

\* lines 165-192: one call, self.exercises being the candidates
search ==
    /\ search_pc = "idle"
    /\ \E candidates \in CandidateLists, query \in Queries, limit \in 0..MaxTopK,
          fuzzy_available \in BOOLEAN :
         \E score \in ScoreTables(candidates, Chars[query], fuzzy_available) :
            /\ search_call' = [candidates |-> candidates, query |-> query,
                               limit |-> limit, fuzzy_available |-> fuzzy_available,
                               score |-> score]
            /\ search_ret' = search_exercises(candidates, Chars[query], limit,
                                              fuzzy_available, score)
    /\ search_pc' = "returned"
    /\ UNCHANGED <<exercises, rag_vars, val_vars, agent_vars, ext_vars, memo_vars,
                   cache_vars, conc_vars, frame_vars,
                   swarm_vars, demo_vars>>

\* the caller took the list
search_done ==
    /\ search_pc = "returned"
    /\ search_pc' = "idle"
    /\ search_call' = NoSearchCall
    /\ search_ret' = << >>
    /\ UNCHANGED <<exercises, rag_vars, val_vars, agent_vars, ext_vars, memo_vars,
                   cache_vars, conc_vars, frame_vars,
                   swarm_vars, demo_vars>>

NextSearch == search \/ search_done

SpecSearch == InitSearch /\ [][NextSearch]_vars

-----------------------------------------------------------------------------
(* Properties of get_safe_recommendations *)

\* the composite text of an exercise: name, category and tags, lowercased
CompositeText(e) ==
    Lower(Chars[e.name] \o Chars[" "] \o Chars[e.category] \o Chars[" "]
          \o JoinWith(Chars[" "], [i \in 1..Len(e.tags) |-> Chars[e.tags[i]]]))

\* a contraindication of e equals, case-insensitively, a user condition
MatchesCondition(e, user_conditions) ==
    \E c \in Range(e.contraindications), u \in Range(user_conditions) :
        Lower(Chars[c]) = Lower(Chars[u])

\* the recognized tags among the supplied risks
RecognizedTags(dynamic_risks) ==
    {t \in DOMAIN DYNAMIC_RISK_BLOCKS :
        \E i \in 1..Len(dynamic_risks) : Lower(Chars[dynamic_risks[i]]) = Chars[t]}

\* a keyword blocked by tag t occurs in the composite text of e
BlockedByTag(e, t) ==
    \E k \in Range(DYNAMIC_RISK_BLOCKS[t].blocked) : Contains(Chars[k], CompositeText(e))

Returned == Range(rag_ret.safe_exercises)

\* C1 (static supremacy): no exercise returned in safe_exercises has a
\* contraindication that equals, case-insensitively, one of the user's
\* conditions, whatever the dynamic risks are.
C1_StaticSupremacy ==
    rag_pc = "returned" =>
        \A e \in Returned : ~MatchesCondition(e, rag_args.user_conditions)

\* a call with dynamic risks on a catalog holding a contraindicated exercise
\* that returned some exercise
C1_Witness ==
    /\ rag_pc = "returned"
    /\ \E e \in Range(exercises) : MatchesCondition(e, rag_args.user_conditions)
    /\ RecognizedTags(rag_args.dynamic_risks) # {}
    /\ Returned # {}

\* C2 (dynamic exclusion): when a recognized risk tag is supplied, no returned
\* exercise has a keyword blocked by a supplied recognized tag as a substring
\* of its lowercased composite text.
C2_DynamicExclusion ==
    (rag_pc = "returned" /\ RecognizedTags(rag_args.dynamic_risks) # {}) =>
        \A e \in Returned :
            \A t \in RecognizedTags(rag_args.dynamic_risks) : ~BlockedByTag(e, t)

\* a call with a recognized risk on a catalog holding an exercise that the
\* risk blocks through its tags only, that returned some exercise
C2_Witness ==
    /\ rag_pc = "returned"
    /\ \E e \in Range(exercises), t \in RecognizedTags(rag_args.dynamic_risks) :
          /\ BlockedByTag(e, t)
          /\ ~dynamic_blocked_name_only(e, Range(DYNAMIC_RISK_BLOCKS[t].blocked))
    /\ Returned # {}

\* every reordering of a list
Reorderings(lst) ==
    {[i \in 1..Len(lst) |-> lst[p[i]]] :
        p \in {q \in [1..Len(lst) -> 1..Len(lst)] :
                  \A i, j \in 1..Len(lst) : i # j => q[i] # q[j]}}

\* C3 (dynamic union): the blocked-keyword set of a call is the union of the
\* blocked sets of its recognized tags, whatever the order of the tags, and
\* an exercise excluded under one supplied tag alone is never returned.
C3_DynamicUnion ==
    rag_pc = "returned" =>
        /\ rag_ret.dynamic_adjustments.blocked_keywords
             = UNION {Range(DYNAMIC_RISK_BLOCKS[t].blocked) :
                        t \in RecognizedTags(rag_args.dynamic_risks)}
        /\ \A r \in Reorderings(rag_args.dynamic_risks) :
              blocked_keywords(LowerAll(r)) = rag_ret.dynamic_adjustments.blocked_keywords
        /\ \A t \in RecognizedTags(rag_args.dynamic_risks) :
              Returned \subseteq
                 Range(safe_list(exercises, rag_args.user_conditions, <<t>>))

\* a call with two recognized tags whose blocked sets differ, on a catalog
\* with an exercise that only the second tag excludes
C3_Witness ==
    /\ rag_pc = "returned"
    /\ rag_args.dynamic_risks = <<"fried", "High_Sugar">>
    /\ \E e \in Range(exercises) :
          /\ ~MatchesCondition(e, rag_args.user_conditions)
          /\ BlockedByTag(e, "high_sugar") /\ ~BlockedByTag(e, "fried")
    /\ Returned # {}

\* C4 (result cap): at most top_k exercises are returned and each of them
\* passed the static and the dynamic check; excluded exercises never fill
\* the result up to top_k.
C4_ResultCap ==
    rag_pc = "returned" =>
        /\ Len(rag_ret.safe_exercises) <= rag_args.top_k
        /\ \A e \in Returned :
              /\ e \in Range(exercises)
              /\ ~MatchesCondition(e, rag_args.user_conditions)
              /\ \A t \in RecognizedTags(rag_args.dynamic_risks) : ~BlockedByTag(e, t)

\* a call that returned fewer than top_k exercises although the catalog
\* holds more: the others were excluded
C4_Witness ==
    /\ rag_pc = "returned"
    /\ EmptyQuery(Chars[rag_args.user_query])
    /\ Len(rag_ret.safe_exercises) >= 1
    /\ Len(rag_ret.safe_exercises) < rag_args.top_k
    /\ Len(exercises) >= rag_args.top_k

\* a call whose safe subset was larger than top_k
C4_WitnessCap ==
    /\ rag_pc = "returned"
    /\ rag_args.top_k >= 1
    /\ Len(rag_ret.safe_exercises) = rag_args.top_k
    /\ Len(safe_list(exercises, rag_args.user_conditions, rag_args.dynamic_risks))
          > rag_args.top_k

-----------------------------------------------------------------------------
(* Properties of the validator *)

Validated == val_pc \in {"validated", "revalidated"}

\* C5 (empty-risk no-op): the validator called with an empty list of risks
\* returns the input list unaltered and adjusted = False.
C5_EmptyRiskNoOp ==
    (Validated /\ val_args.warnings = << >>) =>
        /\ val_ret.validated = val_args.recommendations
        /\ val_ret.was_adjusted = FALSE

\* a call without warnings on a list holding a high-intensity recommendation
C5_Witness ==
    /\ Validated
    /\ val_args.warnings = << >>
    /\ \E i \in 1..Len(val_args.recommendations) :
          violates(val_args.recommendations[i], <<"fried">>)

\* C6 (no silent drop): the output has the length of the input and holds at
\* each index the input recommendation, when it does not violate, or the
\* Brisk Walking fallback, when it does; adjusted is True exactly when some
\* index was replaced.
C6_NoSilentDrop ==
    Validated =>
        /\ Len(val_ret.validated) = Len(val_args.recommendations)
        /\ \A i \in 1..Len(val_args.recommendations) :
              IF violates(val_args.recommendations[i], val_args.warnings)
              THEN val_ret.validated[i] = Fallback /\ Fallback.name = "Brisk Walking"
              ELSE val_ret.validated[i] = val_args.recommendations[i]
        /\ val_ret.was_adjusted <=>
              \E i \in 1..Len(val_args.recommendations) :
                  val_ret.validated[i] # val_args.recommendations[i]

\* a call that replaced one recommendation and kept a later one
C6_Witness ==
    /\ Validated
    /\ \E i, j \in 1..Len(val_args.recommendations) :
          /\ i < j
          /\ val_ret.validated[i] = Fallback
          /\ val_args.recommendations[i] # Fallback
          /\ val_ret.validated[j] = val_args.recommendations[j]

\* C7 as stated: the second pass returns the same tuple as the first.
C7_IdempotentTuple ==
    val_pc = "revalidated" => val_ret2 = val_ret

\* C7 (idempotent validation), amended: the second pass returns the list of
\* the first pass and adjusted = False.
C7_IdempotentList ==
    val_pc = "revalidated" =>
        /\ val_ret2.validated = val_ret.validated
        /\ val_ret2.was_adjusted = FALSE

\* a second pass after a first pass that replaced a recommendation
C7_Witness ==
    /\ val_pc = "revalidated"
    /\ val_ret.was_adjusted
    /\ val_ret.validated # val_args.recommendations

\* C8: after validation with a non-empty list of risks, no validated
\* recommendation has a name containing a keyword that DYNAMIC_RISK_BLOCKS
\* blocks for one of the active tags.
C8_NoBlockedName ==
    (Validated /\ val_args.warnings # << >>) =>
        \A i \in 1..Len(val_ret.validated) :
            \A t \in RecognizedTags(val_args.warnings) :
                \A k \in Range(DYNAMIC_RISK_BLOCKS[t].blocked) :
                    ~Contains(Chars[k], Lower(Chars[val_ret.validated[i].name]))

-----------------------------------------------------------------------------
(* Properties of execute and execute_async *)

\* the safety_warnings of the response is a list that holds the disclaimer
HasDisclaimer ==
    /\ agent_resp.kind \in {"json", "raw"}
    /\ agent_resp.body.safety_warnings.kind = "list"
    /\ BR001_DISCLAIMER \in Range(agent_resp.body.safety_warnings.items)

\* C9 (disclaimer presence): in execute and in execute_async, whenever the
\* validator returned adjusted = True, the safety_warnings list of the
\* response holds the BR-001 disclaimer.
C9_DisclaimerWhenAdjusted ==
    (agent_pc = "returned" /\ agent_obs.was_adjusted) => HasDisclaimer

\* C10: whenever get_safe_recommendations returned a dynamic_adjustments
\* record for the request, the response of execute and of execute_async
\* holds the BR-001 disclaimer in its safety_warnings, also when the
\* validator replaced nothing.
C10_DisclaimerWhenRagAdjusted ==
    (agent_pc = "returned" /\ agent_obs.rag_adjustments) => HasDisclaimer

\* the response carries recommendations that the LLM produced
CarriesLlmRecommendations ==
    /\ agent_resp.kind \in {"json", "raw"}
    /\ agent_call.llm.body.has_recommendations
    /\ agent_resp.body.has_recommendations
    /\ agent_resp.body.recommendations # << >>

\* C11: when dynamic risks were extracted from the task, a response of
\* execute or execute_async that carries recommendations of the LLM went
\* through the validator: the validator was called and no recommendation of
\* the response is one the validator replaces.
C11_AlwaysValidated ==
    (agent_pc = "returned" /\ agent_obs.visual_warnings # << >>
        /\ CarriesLlmRecommendations) =>
        /\ agent_obs.validator_called
        /\ \A i \in 1..Len(agent_resp.body.recommendations) :
              ~violates(agent_resp.body.recommendations[i], agent_obs.visual_warnings)

-----------------------------------------------------------------------------
(* Further properties of get_safe_recommendations *)

\* what the call in progress could have returned as safe_exercises had it
\* been made with the given risks
ResultsWithRisks(dynamic_risks) ==
    LET safe == safe_list(exercises, rag_args.user_conditions, dynamic_risks)
    IN  UNION {{search_exercises(safe, Chars[rag_args.user_query], rag_args.top_k,
                                 fuzzy_available, score) :
                   score \in ScoreTables(safe, Chars[rag_args.user_query],
                                         fuzzy_available)} :
               fuzzy_available \in BOOLEAN}

\* C12: dynamic_adjustments is None exactly when no supplied risk tag is in
\* the vocabulary, which is exactly when blocked_keywords is empty; a call
\* whose tags are all unknown has no warning and returns what the same call
\* without risks returns.
C12_NoneIffUnrecognized ==
    rag_pc = "returned" =>
        /\ rag_ret.dynamic_adjustments.is_none
              <=> RecognizedTags(rag_args.dynamic_risks) = {}
        /\ rag_ret.dynamic_adjustments.is_none
              <=> rag_ret.dynamic_adjustments.blocked_keywords = {}
        /\ RecognizedTags(rag_args.dynamic_risks) = {} =>
              /\ rag_ret.safety_warnings = << >>
              /\ rag_ret.safe_exercises \in ResultsWithRisks(<< >>)

\* a call with unknown tags only that returned an exercise a recognized tag
\* would have blocked
C12_Witness ==
    /\ rag_pc = "returned"
    /\ rag_args.dynamic_risks # << >>
    /\ RecognizedTags(rag_args.dynamic_risks) = {}
    /\ rag_ret.dynamic_adjustments.is_none
    /\ \E e \in Returned : BlockedByTag(e, "fried")

\* no entry of the list occurs at two indexes
NoDuplicates(lst) == \A i, j \in 1..Len(lst) : lst[i] = lst[j] => i = j

\* C13: for any list of risk tags, repeated tags and tags in different
\* letter case included, every justification occurs at most once in
\* safety_warnings and at most once in the reasons of dynamic_adjustments.
C13_JustificationsOnce ==
    rag_pc = "returned" =>
        /\ NoDuplicates(rag_ret.safety_warnings)
        /\ NoDuplicates(rag_ret.dynamic_adjustments.reasons)


\* C18: with an empty catalog get_safe_recommendations returns
\* safe_exercises = [], no safety warnings and dynamic_adjustments = None,
\* whatever the query, the conditions, the risks and the limit are.
C18_EmptyCatalog ==
    (rag_pc = "returned" /\ exercises = << >>) =>
        /\ rag_ret.safe_exercises = << >>
        /\ rag_ret.safety_warnings = << >>
        /\ rag_ret.dynamic_adjustments.is_none
-----------------------------------------------------------------------------
(* Properties of the warning extractor *)

\* the lowercased text of the task of the call in progress
ExtText == Lower(TaskText(ext_task))

\* C14: for every task text the extractor returns a list whose elements are
\* among fried, high_oil, high_sugar and processed and in which no tag
\* occurs twice, also when the text mentions a tag several times and
\* through both detection strategies.
C14_VocabularyNoDuplicates ==
    ext_pc = "returned" =>
        /\ Range(ext_ret) \subseteq {"fried", "high_oil", "high_sugar", "processed"}
        /\ NoDuplicates(ext_ret)

\* a call on a text in which a pattern of fried matches and whose bracketed
\* list holds the literal fried twice
C14_Witness ==
    /\ ext_pc = "returned"
    /\ TagFound("fried", ExtText)
    /\ \E g \in WarningList(ExtText) :
          \E i, j \in 1..(Len(g) - 4) :
              /\ i + 5 <= j
              /\ SubSeq(g, i, i + 4) = Chars["fried"]
              /\ SubSeq(g, j, j + 4) = Chars["fried"]
    /\ "fried" \in Range(ext_ret)

\* the text holds evidence for the tag: a pattern of the tag matches or the
\* literal of the tag occurs in the bracketed list
Evidence(tag) ==
    \/ TagFound(tag, ExtText)
    \/ \E g \in WarningList(ExtText) : Contains(Chars[tag], g)

\* C15: a tag is in the result exactly when the text holds evidence for it;
\* a text with evidence for fried and high_sugar only gives exactly fried
\* and high_sugar, a text without evidence gives the empty list.
C15_ExactlyTheEvidence ==
    ext_pc = "returned" =>
        /\ \A tag \in DOMAIN VISUAL_WARNING_PATTERNS :
              tag \in Range(ext_ret) <=> Evidence(tag)
        /\ ( /\ Range(ext_task) \subseteq
                  {"Plan a walk. ", "I ate Fried chicken. ", "HIGH-SUGAR sweets. "}
             /\ {"I ate Fried chicken. ", "HIGH-SUGAR sweets. "} \subseteq Range(ext_task) )
              => Range(ext_ret) = {"fried", "high_sugar"}
        /\ Range(ext_task) \subseteq {"Plan a walk. "} => ext_ret = << >>

\* a call on a text with a pattern match for fried and for high_sugar and
\* nothing else
C15_Witness ==
    /\ ext_pc = "returned"
    /\ Len(ext_task) >= 3
    /\ {"I ate Fried chicken. ", "HIGH-SUGAR sweets. "} \subseteq Range(ext_task)
    /\ Range(ext_ret) = {"fried", "high_sugar"}

\* a call on a text whose only evidence for high_oil and processed is in the
\* bracketed list
C15_WitnessList ==
    /\ ext_pc = "returned"
    /\ ~TagFound("high_oil", ExtText) /\ ~TagFound("processed", ExtText)
    /\ {"high_oil", "processed"} \subseteq Range(ext_ret)
    /\ "high_sugar" \notin Range(ext_ret)

-----------------------------------------------------------------------------
(* Properties of the coordinator and the Health Memo *)

\* the coordinator built a task from a memo with warnings and delegated it
DelegatedWithMemo ==
    /\ memo_pc = "delegated"
    /\ ~memo_ret.memo.is_none
    /\ memo_ret.memo.visual_warnings # << >>

\* C16: for every Health Memo whose visual_warnings is a non-empty subset of
\* the vocabulary, every dish name and every base task, the extractor run
\* on the task built from the memo, in English or in Chinese, returns
\* exactly the memo's visual_warnings.
C16_MemoRoundTrip ==
    DelegatedWithMemo =>
        Range(agent_obs.visual_warnings) = Range(memo_ret.memo.visual_warnings)

\* the same for a dish name and a base task that hold no evidence themselves
C16_MemoRoundTripPlain ==
    (DelegatedWithMemo /\ memo_ret.memo.dish_name = "meal"
        /\ memo_call.base_task = "Suggest a workout for today") =>
        Range(agent_obs.visual_warnings) = Range(memo_ret.memo.visual_warnings)


\* the request came with a missing or malformed nutrition result
DegenerateNutrition ==
    memo_call.nutrition_result.kind
        \in {"none", "empty_str", "empty_dict", "bad_json", "json_list"}

\* C17 as stated: for a missing or malformed nutrition result
\* extract_health_memo returns None, the task is the base task and the
\* response carries no BR-001 disclaimer.
C17_NoDisclaimer ==
    (memo_pc = "delegated" /\ DegenerateNutrition) =>
        /\ memo_ret.memo.is_none
        /\ memo_ret.task = Chars[memo_call.base_task]
        /\ ~HasDisclaimer

\* C17, amended: for a missing or malformed nutrition result
\* extract_health_memo returns None and the task is the base task; the
\* response carries no BR-001 disclaimer when the base task itself holds no
\* risk evidence.
C17_NoDisclaimerWithoutTaskEvidence ==
    (memo_pc = "delegated" /\ DegenerateNutrition) =>
        /\ memo_ret.memo.is_none
        /\ memo_ret.task = Chars[memo_call.base_task]
        /\ extract_visual_warnings_from_task(memo_call.base_task) = << >>
              => ~HasDisclaimer

\* a request with an unparseable nutrition string and a base task without
\* evidence whose response carries the recommendations of the LLM
C17_Witness ==
    /\ memo_pc = "delegated"
    /\ memo_call.nutrition_result.kind = "bad_json"
    /\ extract_visual_warnings_from_task(memo_call.base_task) = << >>
    /\ agent_resp.kind = "json"
    /\ agent_resp.body.recommendations # << >>
    /\ agent_resp.body.safety_warnings.kind = "list"

\* the tags extracted from a task built from a memo hold the memo's tags
MemoTagsKept ==
    DelegatedWithMemo =>
        Range(memo_ret.memo.visual_warnings) \subseteq Range(agent_obs.visual_warnings)

-----------------------------------------------------------------------------
(* Properties of the exercise cache *)

\* the call that just returned fetched from the provider and a request raised
FetchFailed ==
    /\ cache_pc = "returned"
    /\ cache_call.fetched
    /\ cache_call.fail_at # 0

\* C19: hydrate_cache never raises, and when the remote fetch fails, on the first
\* page or on a later one, get_exercises and the cache file still hold the last
\* successfully hydrated snapshot (the empty list if there was none): a failed or
\* partial fetch never replaces a good snapshot
C19_FailedFetchKeepsSnapshot ==
    FetchFailed =>
        /\ get_exercises = cache_snapshot
        /\ cache_file = cache_call.file_before

\* a fetch that fails on its first page leaves the list and the file as they were
C19_FirstPageFailureKeepsAll ==
    (FetchFailed /\ cache_call.fail_at = 1) =>
        /\ cache_ret = FALSE
        /\ get_exercises = cache_call.memory_before
        /\ cache_file = cache_call.file_before


-----------------------------------------------------------------------------
(* Properties of concurrent calls of the filter *)

BothReturned == \A t \in Threads : thr_pc[t] = "returned"

\* what the call of thread t returns when it runs alone on the catalog
AloneResult(t) ==
    [raised |-> FALSE,
     safe_exercises |->
        search_exercises(safe_list(conc_env.before, thr_call[t].user_conditions,
                                   thr_call[t].dynamic_risks),
                         Chars[thr_call[t].user_query], thr_call[t].top_k,
                         conc_env.fuzzy_available, thr_call[t].score)]

\* every exercise thread t got passes the exclusions of its own arguments
OwnExclusions(t) ==
    /\ ~thr_ret[t].raised
    /\ \A i \in 1..Len(thr_ret[t].safe_exercises) :
          is_safe(thr_ret[t].safe_exercises[i],
                  LowerAll(thr_call[t].user_conditions),
                  blocked_keywords(LowerAll(thr_call[t].dynamic_risks)))

\* C20: for every interleaving of two calls of get_safe_recommendations on
\* one SimpleRagTool, each call returns a result that satisfies the static and
\* dynamic exclusion of its own inputs, as if it had run alone on the full
\* catalog, and after both returned the catalog equals the catalog before
C20_ConcurrentCallsSafe ==
    BothReturned =>
        /\ \A t \in Threads : OwnExclusions(t) /\ thr_ret[t] = AloneResult(t)
        /\ exercises = conc_env.before

\* the parts of C20, one by one
C20_OwnExclusions == BothReturned => \A t \in Threads : OwnExclusions(t)

C20_NoRaise == BothReturned => \A t \in Threads : ~thr_ret[t].raised

C20_CatalogRestored == BothReturned => exercises = conc_env.before

\* a call that runs while no other call is inside the filter is as the claim says
C20_SequentialCallsSafe ==
    \A t \in Threads :
        (thr_pc[t] = "returned" /\ \A u \in Threads \ {t} : thr_pc[u] = "idle")
            => /\ OwnExclusions(t)
               /\ thr_ret[t] = AloneResult(t)
               /\ exercises = conc_env.before


-----------------------------------------------------------------------------
(* Properties of the catalog around a call of the filter *)

\* C21: after get_safe_recommendations ends, whether it returned or raised
\* inside the search step, SimpleRagTool.exercises has the entries it had
\* before the call
C21_CatalogUnchanged ==
    frame_pc = "returned" => exercises = frame_call.before

\* a call that returns leaves the catalog as it was
C21_CatalogUnchangedOnReturn ==
    (frame_pc = "returned" /\ ~frame_ret.raised) => exercises = frame_call.before


-----------------------------------------------------------------------------
(* Properties of the agent's error handling *)

\* C22: no exception of the filtering path reaches the caller of execute or
\* execute_async: for any task, any profile conditions (missing, null, not a
\* list) and any text of the LLM the agent returns a response, and that
\* response is never a raw error or the raw unparsed text of the model
C22_AlwaysAResponse ==
    agent_pc = "returned" => agent_resp.kind = "json"

\* the parts of C22, one by one
C22_NeverRaises == agent_pc = "returned" => agent_resp.kind # "raised"

C22_NeverRawText == agent_pc = "returned" => agent_resp.kind # "raw"



-----------------------------------------------------------------------------
(* Properties of the search step *)

\* the text holds nothing but whitespace
Blank(text) == \A i \in 1..Len(text) : text[i] \in WhitespaceChars

\* the positions of the catalog whose exercise passes both checks of the call
SafePositions ==
    { i \in 1..Len(exercises) :
        /\ ~MatchesCondition(exercises[i], rag_args.user_conditions)
        /\ \A t \in RecognizedTags(rag_args.dynamic_risks) :
              ~BlockedByTag(exercises[i], t) }

\* the k-th of the positions S, in catalog order
SafePosition(S, k) == CHOOSE i \in S : Cardinality({j \in S : j < i}) = k - 1

\* C23: when the query is empty or only whitespace, get_safe_recommendations
\* returns the first top_k exercises of the safe subset, in catalog order,
\* and never an excluded one
C23_EmptyQueryBrowse ==
    (rag_pc = "returned" /\ Blank(Chars[rag_args.user_query])) =>
        LET safe == SafePositions
        IN  /\ Len(rag_ret.safe_exercises) = Min(rag_args.top_k, Cardinality(safe))
            /\ \A k \in 1..Len(rag_ret.safe_exercises) :
                  rag_ret.safe_exercises[k] = exercises[SafePosition(safe, k)]

\* a whitespace query on a catalog whose first exercise is excluded: the one
\* exercise returned is the first safe one, further down the catalog
C23_Witness ==
    /\ rag_pc = "returned"
    /\ rag_args.user_query = " \n"
    /\ rag_args.top_k = 1
    /\ Len(exercises) >= 1
    /\ 1 \notin SafePositions
    /\ Cardinality(SafePositions) >= 1
    /\ Len(rag_ret.safe_exercises) = 1


\* a ranked search: the query is not blank and rapidfuzz is there
RankedSearch ==
    /\ search_pc = "returned"
    /\ ~Blank(Chars[search_call.query])
    /\ search_call.fuzzy_available

\* the match score of a candidate
ScoreOf(e) == search_call.score[e]

\* the positions of the candidates whose score reaches min_score
Reaching ==
    { i \in 1..Len(search_call.candidates) :
        ScoreOf(search_call.candidates[i]) >= MinScore }

\* C24: for a non-empty query search_exercises returns only candidates whose
\* score is at least min_score, ordered by score descending, and the limit
\* best of them whenever at least limit candidates reach the threshold;
\* candidates below the threshold never fill the result
C24_ThresholdAndRank ==
    RankedSearch =>
        /\ Len(search_ret) <= search_call.limit
        /\ \A k \in 1..Len(search_ret) :
              /\ search_ret[k] \in Range(search_call.candidates)
              /\ ScoreOf(search_ret[k]) >= MinScore
              /\ Cardinality({i \in 1..Len(search_call.candidates) :
                     ScoreOf(search_call.candidates[i]) > ScoreOf(search_ret[k])}) < k
        /\ \A k \in 1..(Len(search_ret) - 1) :
              ScoreOf(search_ret[k]) >= ScoreOf(search_ret[k + 1])
        /\ Cardinality(Reaching) >= search_call.limit
              => Len(search_ret) = search_call.limit

\* more candidates than 2 * limit, the best one last in the list, one below
\* the threshold first, and two above it
C24_Witness ==
    /\ RankedSearch
    /\ search_call.limit = 1
    /\ Len(search_call.candidates) = 3
    /\ Cardinality(Reaching) = 2
    /\ 1 \notin Reaching
    /\ ScoreOf(search_call.candidates[3]) > ScoreOf(search_call.candidates[2])
    /\ search_ret = <<search_call.candidates[3]>>

\* without rapidfuzz a non-empty query finds nothing
C24_NoMatcherNoResults ==
    (search_pc = "returned" /\ ~Blank(Chars[search_call.query])
        /\ ~search_call.fuzzy_available) => search_ret = << >>


-----------------------------------------------------------------------------
(* Properties of the validator against the filter *)

\* a catalog exercise that has the name and nothing else
NamedExercise(name) ==
    [name |-> name, category |-> "", tags |-> << >>, contraindications |-> << >>,
     image_url |-> ""]

\* the dynamic check of get_safe_recommendations excludes an exercise of that
\* name under the risks
FilterExcludes(name, risks) ==
    dynamic_blocked(NamedExercise(name), blocked_keywords(LowerAll(risks)))

\* C25: for every exercise name and every set of risk tags, the validator
\* replaces a recommendation of that name if and only if the dynamic check of
\* get_safe_recommendations excludes a catalog exercise of that name under
\* the same risks
C25_SameBlockedKeywords ==
    Validated =>
        \A i \in 1..Len(val_args.recommendations) :
            violates(val_args.recommendations[i], val_args.warnings)
                <=> FilterExcludes(val_args.recommendations[i].name, val_args.warnings)

\* the two directions of C25
C25_ValidatorCoversFilter ==
    Validated =>
        \A i \in 1..Len(val_args.recommendations) :
            FilterExcludes(val_args.recommendations[i].name, val_args.warnings)
                => violates(val_args.recommendations[i], val_args.warnings)

C25_FilterCoversValidator ==
    Validated =>
        \A i \in 1..Len(val_args.recommendations) :
            violates(val_args.recommendations[i], val_args.warnings)
                => FilterExcludes(val_args.recommendations[i].name, val_args.warnings)


-----------------------------------------------------------------------------
(* Properties of the swarm *)

\* the request went to both agents and the swarm has returned
BothDelegated ==
    /\ swarm_pc = "returned"
    /\ \E i, j \in 1..Len(swarm_ret.runs) :
           swarm_ret.runs[i].agent = "nutrition" /\ swarm_ret.runs[j].agent = "fitness"

NutritionRun == swarm_ret.runs[CHOOSE i \in 1..Len(swarm_ret.runs) : swarm_ret.runs[i].agent = "nutrition"]

FitnessRun == swarm_ret.runs[CHOOSE i \in 1..Len(swarm_ret.runs) : swarm_ret.runs[i].agent = "fitness"]

\* the visual_warnings of what the Nutrition agent returned
WarningsOf(res) ==
    IF res.kind = "json_dict" /\ "visual_warnings" \in res.body.present
    THEN Range(res.body.visual_warnings) ELSE {}

\* C26 (first part): when one request is delegated to both agents, Nutrition
\* runs before Fitness
C26_NutritionFirst ==
    BothDelegated =>
        \E i, j \in 1..Len(swarm_ret.runs) :
            /\ i < j
            /\ swarm_ret.runs[i].agent = "nutrition"
            /\ swarm_ret.runs[j].agent = "fitness"

\* C26 (second part): the task given to the Fitness agent carries the Health
\* Memo of the nutrition result
C26_TaskCarriesMemo ==
    BothDelegated =>
        (~extract_health_memo(NutritionRun.result).is_none
            => Chars[FitnessRun.task] =
                   build_fitness_task_with_context(
                       Chars[swarm_call.delegations[2].task], NutritionRun.result,
                       Chars[swarm_call.user_input]))

\* C26: when one request is delegated to both Nutrition and Fitness, Nutrition
\* runs first and the visual_warnings of the nutrition result are the dynamic
\* risks the Fitness agent filters with
C26_NutritionFeedsFitness ==
    BothDelegated =>
        /\ C26_NutritionFirst
        /\ Range(FitnessRun.dynamic_risks) = WarningsOf(NutritionRun.result)


-----------------------------------------------------------------------------
(* Properties of the memo extraction *)

\* the call that just returned was given an object with a non-empty
\* visual_warnings list
WarningsReported ==
    /\ memo_pc = "extracted"
    /\ memo_call.nutrition_result.kind \in {"dict", "json_dict"}
    /\ "visual_warnings" \in memo_call.nutrition_result.body.present

\* C27: for every nutrition result with a non-empty visual_warnings list,
\* extract_health_memo returns a memo whose visual_warnings holds every
\* warning of the result, none of them twice, and whose health_score is the
\* health_score of the result
C27_MemoKeepsWarnings ==
    WarningsReported =>
        LET body == memo_call.nutrition_result.body
        IN  /\ ~memo_ret.memo.is_none
            /\ Range(body.visual_warnings) \subseteq Range(memo_ret.memo.visual_warnings)
            /\ NoDuplicates(memo_ret.memo.visual_warnings)
            /\ "health_score" \in body.present
                   => memo_ret.memo.health_score = body.health_score

\* C27 (what the code does): the memo holds the list of the result as it came,
\* repeats included
C27_MemoCopiesWarnings ==
    WarningsReported =>
        /\ ~memo_ret.memo.is_none
        /\ memo_ret.memo.visual_warnings = memo_call.nutrition_result.body.visual_warnings


-----------------------------------------------------------------------------
(* Properties of the task injection *)

\* the call that just returned was given a memo whose warnings hold fried
FriedMemoInjected ==
    /\ memo_pc = "injected"
    /\ ~memo_ret.memo.is_none
    /\ "fried" \in Range(memo_ret.memo.visual_warnings)

\* C28: for a memo whose visual_warnings holds fried, the task built from the
\* base task and the memo alone contains the Chinese risk label and the dish
\* name of the memo
C28_DefaultTaskHasChineseLabel ==
    FriedMemoInjected =>
        /\ Contains(<<"U6CB9","U70B8">>, memo_ret.task)
        /\ Contains(Chars[memo_ret.memo.dish_name], memo_ret.task)

\* C28 (what the code does): that task has the English label and the dish name
C28_DefaultTaskHasEnglishLabel ==
    FriedMemoInjected =>
        /\ Contains(<<"d","e","e","p","-","f","r","i","e","d">>, memo_ret.task)
        /\ Contains(Chars[memo_ret.memo.dish_name], memo_ret.task)


-----------------------------------------------------------------------------
(* Properties of what hydrate_cache returns *)

\* the call that just returned said True
HydratedTrue == cache_pc = "returned" /\ cache_ret

\* the in-memory list is what this call fetched from the provider
HoldsThisFetch ==
    /\ Len(get_exercises) > 0
    /\ \A i \in 1..Len(get_exercises) : get_exercises[i].id[1] = cache_fetches

\* the in-memory list is what the cache file held when the call began
HoldsTheFile ==
    /\ cache_call.file_before.kind \in {"list", "dict"}
    /\ get_exercises = cache_call.file_before.data

\* C29: hydrate_cache returns True only when that call populated the in-memory
\* cache: after a call that returns True, get_exercises returns the exercises
\* read from the cache file or fetched from the provider, whatever the cache
\* file holds
C29_TrueMeansPopulated ==
    HydratedTrue => IF cache_call.fetched THEN HoldsThisFetch ELSE HoldsTheFile

\* C29 (the shapes the code handles): True after a fetch, or after reading a
\* file that holds a list or an object with a data key, means populated
C29_TrueMeansPopulatedForKnownShapes ==
    (HydratedTrue /\ (cache_call.fetched \/ cache_call.file_before.kind # "other"))
        => IF cache_call.fetched THEN HoldsThisFetch ELSE HoldsTheFile


-----------------------------------------------------------------------------
(* Properties of demo mode *)

\* the last message was an /exit or /quit and demo mode is off
ExitedDemo == demo_last.kind \in {"/exit", "/quit"} /\ ~demo_mode

\* C30: leaving demo mode clears the demo session: whenever demo_mode is False
\* after an /exit, demo_user_id is None and _demo_user_profile holds no profile
\* of the user who had started the demo, whoever sent the /exit
C30_ExitClearsDemoSession ==
    ExitedDemo =>
        /\ demo_user_id = "None"
        /\ demo_last.demo_user_id \notin DOMAIN demo_user_profile

\* C30 (the flags): after an /exit, demo_mode is False and demo_user_id is None
C30_ExitClearsFlags ==
    demo_last.kind = "/exit" => ~demo_mode /\ demo_user_id = "None"

\* C30 (the own session): an /exit of the user who started the demo removes
\* that user's demo profile
C30_OwnExitClearsProfile ==
    (ExitedDemo /\ demo_last.author = demo_last.demo_user_id)
        => demo_last.demo_user_id \notin DOMAIN demo_user_profile


=============================================================================
